---- MODULE Spec2Model ----
(***************************************************************************)
(* The instanced Mesh of projects/thor (src/projects/thor/src/mesh.ts,     *)
(* second class of the file) together with the part of the WebGL2 context  *)
(* it drives: the ARRAY_BUFFER binding, the buffer data stores, the vertex *)
(* attribute arrays and the current program.  Floats are modelled by small *)
(* integers (all exactly representable as 32 bit floats); a Float32Array   *)
(* is a sequence, indexed from 1 here and from 0 in the source.            *)
(*                                                                         *)
(* The other classes of the repository follow the Mesh, each with the      *)
(* specification of its own: Program (SpecProgram), RenderManager          *)
(* (SpecRenderManager), Camera (SpecCamera), the Mesh of exercise 4        *)
(* (SpecExercise4), the application of exercise 7 with its TriangleObject   *)
(* and Texture (SpecApp), the meshes without instancing on a shared        *)
(* context (SpecPlainMeshes, SpecSharedContext) and the App and Renderer   *)
(* of projects/damien (SpecDamien).  SpecInstanceBuffer and SpecRenderLoop *)
(* are the Mesh and the RenderManager with fewer inputs.  A specification  *)
(* leaves the variables of the classes it does not model at the value      *)
(* Absent.                                                                 *)
(***************************************************************************)
EXTENDS Integers, Sequences, FiniteSets, TLC

\* ------------------------------------------------------------------ bounds
MaxVertices == 3
MaxSize == 2
MaxInstances == 2
MaxDataLen == 2

\* ------------------------------------------------------- program constants
elementsPerPosition == 3
elementsPerUV == 2
elementsPerVertex == elementsPerPosition + elementsPerUV
BYTES_PER_ELEMENT == 4

\* ------------------------------------------------------------------ inputs
\* The vertices a caller may pass: two vertices with pairwise distinct floats.
VertexPool ==
  { [position |-> <<1, 2, 3>>, uv |-> <<4, 5>>],
    [position |-> <<6, 7, 8>>, uv |-> <<9, 10>>] }

VertexLists == UNION { [1..n -> VertexPool] : n \in 0..MaxVertices }

\* Names of the instance attributes of triangle.ts, and one never declared.
InstanceNames == {"iOffset", "iColor"}
UnknownName == "iScale"

Definitions == [name : InstanceNames, size : 1..MaxSize]

\* instanceAttributeDefinition arrays: definitions of pairwise distinct
\* names, iOffset before iColor as in triangle.ts
DefinitionLists ==
  { ds \in UNION { [1..n -> Definitions] : n \in 0..Cardinality(InstanceNames) } :
      /\ \A i, j \in DOMAIN ds : i # j => ds[i].name # ds[j].name
      /\ (Len(ds) = 2 => ds[1].name = "iOffset") }

\* The arguments of the constructor: any vertices with the default (empty)
\* instanceAttributeDefinition, and any definitions with the longest vertex
\* array
FullVertices == [i \in 1..MaxVertices |-> IF i % 2 = 1
                  THEN [position |-> <<1, 2, 3>>, uv |-> <<4, 5>>]
                  ELSE [position |-> <<6, 7, 8>>, uv |-> <<9, 10>>]]
ConstructorArguments ==
  (VertexLists \X {<<>>}) \cup ({FullVertices} \X DefinitionLists)

\* The Float32Array values passed to setInstanceProperty: <<1, 2, ...>>,
\* nonzero so that a written float differs from a freshly allocated one
DataArrays == { [i \in 1..n |-> i] : n \in 1..MaxDataLen }

\* A linked Program is represented by its list of active attributes; the
\* location of an attribute is its position in the list, counted from 0.
\* The first is the program of triangle.ts (its vertex shader declares only
\* aPosition and aUv), the second declares the instance attributes as well.
Programs ==
  { <<"aPosition", "aUv">>,
    <<"aPosition", "aUv", "iOffset", "iColor">> }
NullProgram == <<>>
InvalidLocation == 0 - 1
Locations == UNION { 0..(Len(p) - 1) : p \in Programs }

\* Handles of the two buffers created by the constructor
buffer == "buffer"
instanceBuffer == "instanceBuffer"
NullBuffer == "null"

VARIABLES
  vertices,                     \* constructor argument
  instanceAttributeDefinition,  \* constructor argument
  vertexCount,
  instanceCount,
  instanceAttributes,           \* the Map, as its entries in iteration order
  instanceAttributeSize,
  gl,                           \* state of the WebGL2 context
  lastOp,                       \* the last call or event and what it did
  programObjects,               \* the Program objects constructed so far
  canvas,                       \* the HTMLCanvasElement
  devicePixelRatio,             \* window.devicePixelRatio
  onRenderCallbacks,            \* RenderManager.onRenderCallbacks
  animationFrameCallbacks,      \* requestAnimationFrame callbacks not yet run
  frame,                        \* the animation frame the browser is running
  position,                     \* Camera.position
  zoom,                         \* Camera.zoom
  triangleObject,               \* the fields of the TriangleObject
  images,                       \* the Image of each Texture.fromURL call
  errors,                       \* the errors thrown and not caught
  renderer,                     \* the fields of the Renderer
  resizeListeners               \* the resize listeners of the window

\* The fields of the Mesh
meshVars == <<vertices, instanceAttributeDefinition, vertexCount, instanceCount,
              instanceAttributes, instanceAttributeSize>>

programVars == <<programObjects>>

renderManagerVars == <<canvas, devicePixelRatio, onRenderCallbacks, frame>>

schedulerVars == <<animationFrameCallbacks>>

cameraVars == <<position, zoom>>

appVars == <<triangleObject, images, errors>>

rendererVars == <<renderer, resizeListeners>>

vars == <<meshVars, gl, lastOp, programVars, renderManagerVars, schedulerVars,
          cameraVars, appVars, rendererVars>>

\* The value of a variable in a specification that does not model its class
Absent == "absent"

\* No Mesh in a specification
MeshAbsent ==
  /\ vertices = Absent
  /\ instanceAttributeDefinition = Absent
  /\ vertexCount = Absent
  /\ instanceCount = Absent
  /\ instanceAttributes = Absent
  /\ instanceAttributeSize = Absent

ProgramAbsent == programObjects = Absent

RenderManagerAbsent ==
  /\ canvas = Absent
  /\ devicePixelRatio = Absent
  /\ onRenderCallbacks = Absent
  /\ frame = Absent

SchedulerAbsent == animationFrameCallbacks = Absent

CameraAbsent ==
  /\ position = Absent
  /\ zoom = Absent

AppAbsent ==
  /\ triangleObject = Absent
  /\ images = Absent
  /\ errors = Absent

RendererAbsent ==
  /\ renderer = Absent
  /\ resizeListeners = Absent

\* ---------------------------------------------------------- WebGL2 context
\* A context value carries the GL state and, in log, the GL calls of the
\* handler that is running.  ok = FALSE marks a call the context rejected
\* (it generates an error and changes nothing).
Call(fn, a, ok) == [fn |-> fn, a |-> a, ok |-> ok]

DefaultPointer == [buffer |-> NullBuffer, size |-> 4, stride |-> 0, offset |-> 0]

FreshContext ==
  [program |-> NullProgram,
   arrayBuffer |-> NullBuffer,
   enabled |-> {},
   pointer |-> [l \in Locations |-> DefaultPointer],
   divisor |-> [l \in Locations |-> 0],
   data |-> [b \in {buffer, instanceBuffer} |-> <<>>],
   log |-> <<>>]

Logged(G, fn, a, ok) == [G EXCEPT !.log = Append(@, Call(fn, a, ok))]

StartHandler(G) == [G EXCEPT !.log = <<>>]

createBuffer(G) == Logged(G, "createBuffer", 0, TRUE)

bindBuffer(G, b) ==
  Logged([G EXCEPT !.arrayBuffer = b], "bindBuffer", 0, TRUE)

bufferData(G, srcData) ==
  IF G.arrayBuffer = NullBuffer
    THEN Logged(G, "bufferData", Len(srcData), FALSE)
    ELSE Logged([G EXCEPT !.data[G.arrayBuffer] = srcData],
                "bufferData", Len(srcData), TRUE)

\* Writes srcData into the bound buffer from byte dstByteOffset on; rejected
\* (INVALID_VALUE) when the write would reach past the end of the data store.
bufferSubData(G, dstByteOffset, srcData) ==
  IF G.arrayBuffer = NullBuffer
    THEN Logged(G, "bufferSubData", dstByteOffset, FALSE)
    ELSE
      LET store == G.data[G.arrayBuffer]
          first == dstByteOffset \div BYTES_PER_ELEMENT
      IN IF \/ dstByteOffset < 0
            \/ dstByteOffset + Len(srcData) * BYTES_PER_ELEMENT
                 > Len(store) * BYTES_PER_ELEMENT
           THEN Logged(G, "bufferSubData", dstByteOffset, FALSE)
           ELSE Logged(
                  [G EXCEPT !.data[G.arrayBuffer] =
                     [p \in 1..Len(store) |->
                        IF p > first /\ p <= first + Len(srcData)
                          THEN srcData[p - first]
                          ELSE store[p]]],
                  "bufferSubData", dstByteOffset, TRUE)

useProgram(G, p) == Logged([G EXCEPT !.program = p], "useProgram", 0, TRUE)

enableVertexAttribArray(G, index) ==
  IF index \in Locations
    THEN Logged([G EXCEPT !.enabled = @ \cup {index}],
                "enableVertexAttribArray", index, TRUE)
    ELSE Logged(G, "enableVertexAttribArray", index, FALSE)

disableVertexAttribArray(G, index) ==
  IF index \in Locations
    THEN Logged([G EXCEPT !.enabled = @ \ {index}],
                "disableVertexAttribArray", index, TRUE)
    ELSE Logged(G, "disableVertexAttribArray", index, FALSE)

vertexAttribPointer(G, index, size, stride, offset) ==
  IF index \in Locations
    THEN Logged([G EXCEPT !.pointer[index] =
                   [buffer |-> G.arrayBuffer, size |-> size,
                    stride |-> stride, offset |-> offset]],
                "vertexAttribPointer", index, TRUE)
    ELSE Logged(G, "vertexAttribPointer", index, FALSE)

vertexAttribDivisor(G, index, divisor) ==
  IF index \in Locations
    THEN Logged([G EXCEPT !.divisor[index] = divisor],
                "vertexAttribDivisor", index, TRUE)
    ELSE Logged(G, "vertexAttribDivisor", index, FALSE)

\* The GL state without the log
ContextState(G) == [G EXCEPT !.log = <<>>]

\* ------------------------------------------------------------------ Program
getAttribLocation(program, name) ==
  IF \E i \in 1..Len(program) : program[i] = name
    THEN (CHOOSE i \in 1..Len(program) : program[i] = name) - 1
    ELSE InvalidLocation

\* --------------------------------------------------------- Mesh constructor
\* Map.prototype.set: a new key is appended, an existing key keeps its place
MapSet(map, entry) ==
  IF \E i \in 1..Len(map) : map[i].name = entry.name
    THEN [i \in 1..Len(map) |->
            IF map[i].name = entry.name THEN entry ELSE map[i]]
    ELSE Append(map, entry)

MapHas(map, name) == \E i \in 1..Len(map) : map[i].name = name

MapGet(map, name) == map[CHOOSE i \in 1..Len(map) : map[i].name = name]

\* A variant of the loop that never advances the offset
RECURSIVE LayoutLoopStaleOffset(_, _)
LayoutLoopStaleOffset(defs, acc) ==
  IF defs = <<>> THEN acc
  ELSE LET attr == Head(defs)
       IN LayoutLoopStaleOffset(Tail(defs),
            [map |-> MapSet(acc.map,
                       [name |-> attr.name, size |-> attr.size,
                        offset |-> acc.offset]),
             offset |-> acc.offset,
             total |-> acc.total + attr.size])

\* The loop over instanceAttributeDefinition: acc holds the Map, the running
\* offset and instanceAttributeSize
RECURSIVE LayoutLoop(_, _)
LayoutLoop(defs, acc) ==
  IF defs = <<>> THEN acc
  ELSE LET attr == Head(defs)
       IN LayoutLoop(Tail(defs),
            [map |-> MapSet(acc.map,
                       [name |-> attr.name, size |-> attr.size,
                        offset |-> acc.offset]),
             offset |-> acc.offset + attr.size,
             total |-> acc.total + attr.size])

Layout(defs) == LayoutLoop(defs, [map |-> <<>>, offset |-> 0, total |-> 0])

\* A variant that stores v where u belongs and leaves the last float unset
VertexDataUvSameSlot(vs) ==
  [p \in 1..(Len(vs) * elementsPerVertex) |->
     LET i == (p - 1) \div elementsPerVertex
         c == (p - 1) % elementsPerVertex
     IN IF c < elementsPerPosition
          THEN vs[i + 1].position[c + 1]
          ELSE IF c = elementsPerPosition THEN vs[i + 1].uv[2] ELSE 0]

\* The flattened vertex data: x, y, z, u, v per vertex
VertexData(vs) ==
  [p \in 1..(Len(vs) * elementsPerVertex) |->
     LET i == (p - 1) \div elementsPerVertex
         c == (p - 1) % elementsPerVertex
     IN IF c < elementsPerPosition
          THEN vs[i + 1].position[c + 1]
          ELSE vs[i + 1].uv[c - elementsPerPosition + 1]]

NoDraw == [kind |-> "none", count |-> 0, instances |-> 0,
           at |-> ContextState(FreshContext)]

Op(op, G) ==
  [op |-> op, count |-> 0, index |-> 0, name |-> "", data |-> <<>>,
   program |-> NullProgram, positionVariableName |-> "", uvAttributeName |-> "",
   threw |-> "none", calls |-> G.log, draw |-> NoDraw,
   prevCount |-> 0, prevDirty |-> FALSE]

\* No call on the mesh is running or waiting to be observed
Idle == Op("idle", FreshContext)

Constructor(vs, defs) ==
  LET G1 == createBuffer(StartHandler(FreshContext))
      G2 == createBuffer(G1)
      layout == Layout(defs)
      G3 == bindBuffer(G2, buffer)
      G4 == bufferData(G3, VertexData(vs))
      G5 == bindBuffer(G4, NullBuffer)
  IN /\ vertices = vs
     /\ instanceAttributeDefinition = defs
     /\ instanceAttributes = layout.map
     /\ instanceAttributeSize = layout.total
     /\ instanceCount = 0
     /\ vertexCount = Len(vs)
     /\ gl = ContextState(G5)
     /\ lastOp = Op("constructor", G5)

Init ==
  /\ \E args \in ConstructorArguments : Constructor(args[1], args[2])
  /\ ProgramAbsent
  /\ RendererAbsent
  /\ RenderManagerAbsent
  /\ SchedulerAbsent
  /\ CameraAbsent
  /\ AppAbsent

\* ------------------------------------------------------------- Mesh methods
Zeros(n) == [p \in 1..n |-> 0]

IsDirty(store) == \E p \in 1..Len(store) : store[p] # 0

\* A variant that keeps the old array when the count does not change
NewInstanceDataKept(count) ==
  IF count = instanceCount
    THEN gl.data[instanceBuffer]
    ELSE Zeros(count * instanceAttributeSize)

\* A variant that allocates one float per instance
NewInstanceDataPerInstance(count) == Zeros(count)

\* new Float32Array(instanceCount * this.instanceAttributeSize)
NewInstanceData(count) == Zeros(count * instanceAttributeSize)

setInstanceCount(count) ==
  LET G1 == bindBuffer(StartHandler(gl), instanceBuffer)
      instanceData == NewInstanceData(count)
      G2 == bufferData(G1, instanceData)
      G3 == bindBuffer(G2, NullBuffer)
  IN /\ lastOp = Idle
     /\ instanceCount' = count
     /\ gl' = ContextState(G3)
     /\ lastOp' = [Op("setInstanceCount", G3) EXCEPT
                     !.count = count,
                     !.prevCount = instanceCount,
                     !.prevDirty = IsDirty(gl.data[instanceBuffer])]
     /\ UNCHANGED <<vertices, instanceAttributeDefinition, vertexCount,
                    instanceAttributes, instanceAttributeSize>>

\* A variant that passes the float position as the byte offset
PropertyFloatOffset(index, attribute) ==
  index * instanceAttributeSize + attribute.offset

\* Byte offset of the slot of attribute in instance index
PropertyByteOffset(index, attribute) ==
  (index * instanceAttributeSize + attribute.offset) * BYTES_PER_ELEMENT

\* A variant that binds the instance buffer before it looks the name up
setInstancePropertyBindFirst(index, name, data) ==
  /\ lastOp = Idle
  /\ LET G1 == bindBuffer(StartHandler(gl), instanceBuffer)
     IN IF ~MapHas(instanceAttributes, name)
          THEN /\ gl' = ContextState(G1)
               /\ lastOp' = [Op("setInstanceProperty", G1) EXCEPT
                               !.index = index, !.name = name, !.data = data,
                               !.threw = "Attribute not found"]
          ELSE LET attribute == MapGet(instanceAttributes, name)
                   G2 == bufferSubData(G1,
                           PropertyByteOffset(index, attribute), data)
                   G3 == bindBuffer(G2, NullBuffer)
               IN /\ gl' = ContextState(G3)
                  /\ lastOp' = [Op("setInstanceProperty", G3) EXCEPT
                                  !.index = index, !.name = name,
                                  !.data = data]
  /\ UNCHANGED <<vertices, instanceAttributeDefinition, vertexCount,
                 instanceCount, instanceAttributes, instanceAttributeSize>>

setInstanceProperty(index, name, data) ==
  /\ lastOp = Idle
  /\ IF ~MapHas(instanceAttributes, name)
    THEN /\ lastOp' = [Op("setInstanceProperty", StartHandler(gl)) EXCEPT
                         !.index = index, !.name = name, !.data = data,
                         !.threw = "Attribute not found"]
         /\ UNCHANGED <<vertices, instanceAttributeDefinition, vertexCount,
                        instanceCount, instanceAttributes,
                        instanceAttributeSize, gl>>
    ELSE LET attribute == MapGet(instanceAttributes, name)
             G1 == bindBuffer(StartHandler(gl), instanceBuffer)
             G2 == bufferSubData(G1, PropertyByteOffset(index, attribute), data)
             G3 == bindBuffer(G2, NullBuffer)
         IN /\ gl' = ContextState(G3)
            /\ lastOp' = [Op("setInstanceProperty", G3) EXCEPT
                            !.index = index, !.name = name, !.data = data]
            /\ UNCHANGED <<vertices, instanceAttributeDefinition, vertexCount,
                           instanceCount, instanceAttributes,
                           instanceAttributeSize>>

\* The loop of render over the entries of the instanceAttributes Map
RECURSIVE InstanceAttributeLoop(_, _, _)
InstanceAttributeLoop(G, program, attrs) ==
  IF attrs = <<>> THEN G
  ELSE LET attribute == Head(attrs)
           attributeLocation == getAttribLocation(program, attribute.name)
           G1 == enableVertexAttribArray(G, attributeLocation)
           G2 == vertexAttribPointer(G1, attributeLocation, attribute.size,
                   instanceAttributeSize * BYTES_PER_ELEMENT,
                   attribute.offset * BYTES_PER_ELEMENT)
           G3 == vertexAttribDivisor(G2, attributeLocation, 1)
       IN InstanceAttributeLoop(G3, program, Tail(attrs))

\* The draw call of render, as issued with the context in state G
DrawCall(G) ==
  [kind |-> "drawArraysInstanced", count |-> vertexCount,
   instances |-> instanceCount, at |-> ContextState(G)]

render(program, positionVariableName, uvAttributeName) ==
  LET G1 == useProgram(StartHandler(gl), program)
      positionAttributeLocation ==
        getAttribLocation(program, positionVariableName)
      uvAttributeLocation == getAttribLocation(program, uvAttributeName)
      G2 == enableVertexAttribArray(G1, positionAttributeLocation)
      G3 == enableVertexAttribArray(G2, uvAttributeLocation)
      G4 == bindBuffer(G3, buffer)
      G5 == vertexAttribPointer(G4, positionAttributeLocation,
              elementsPerPosition, elementsPerVertex * BYTES_PER_ELEMENT, 0)
      G6 == vertexAttribPointer(G5, uvAttributeLocation,
              elementsPerUV, elementsPerVertex * BYTES_PER_ELEMENT,
              elementsPerPosition * BYTES_PER_ELEMENT)
      G7 == bindBuffer(G6, instanceBuffer)
      G8 == InstanceAttributeLoop(G7, program, instanceAttributes)
      G9 == bindBuffer(G8, NullBuffer)
      draw == DrawCall(G9)
      G10 == Logged(G9, draw.kind, draw.count, TRUE)
      G11 == disableVertexAttribArray(G10, positionAttributeLocation)
      G12 == disableVertexAttribArray(G11, uvAttributeLocation)
      G13 == bindBuffer(G12, NullBuffer)
      G14 == useProgram(G13, NullProgram)
  IN /\ lastOp = Idle
     /\ gl' = ContextState(G14)
     /\ lastOp' = [Op("render", G14) EXCEPT
                     !.program = program,
                     !.positionVariableName = positionVariableName,
                     !.uvAttributeName = uvAttributeName,
                     !.draw = draw]
     /\ UNCHANGED <<vertices, instanceAttributeDefinition, vertexCount,
                    instanceCount, instanceAttributes, instanceAttributeSize>>

\* The attribute names triangle.ts passes to render
PositionNames == {"aPosition"}
UvNames == {"aUv"}

\* The call returns (or its error propagates) to the caller, which may then
\* make the next call: the calls on a mesh never overlap
Return ==
  /\ lastOp # Idle
  /\ lastOp' = Idle
  /\ UNCHANGED <<vertices, instanceAttributeDefinition, vertexCount,
                 instanceCount, instanceAttributes, instanceAttributeSize, gl>>

\* The variables of the other classes
notMeshVars ==
  <<programVars, renderManagerVars, schedulerVars, cameraVars, appVars,
    rendererVars>>

Next ==
  \/ \E count \in 0..MaxInstances :
       setInstanceCount(count) /\ UNCHANGED notMeshVars
  \/ \E index \in 0..MaxInstances, name \in InstanceNames \cup {UnknownName},
        data \in DataArrays :
          setInstanceProperty(index, name, data) /\ UNCHANGED notMeshVars
  \/ \E program \in Programs, positionVariableName \in PositionNames,
        uvAttributeName \in UvNames :
          render(program, positionVariableName, uvAttributeName)
            /\ UNCHANGED notMeshVars
  \/ Return /\ UNCHANGED notMeshVars

Spec == Init /\ [][Next]_vars

\* ================================================================== claims
\* What the claims are stated against: the constructor's arguments, read
\* directly (none of the operators above that compute the layout is used).
Defs == instanceAttributeDefinition

RECURSIVE SizeSum(_, _)
SizeSum(defs, k) == IF k = 0 THEN 0 ELSE SizeSum(defs, k - 1) + defs[k].size

Stride == SizeSum(Defs, Len(Defs))

IsDeclared(name) == \E j \in 1..Len(Defs) : Defs[j].name = name

DefOf(name) == CHOOSE j \in 1..Len(Defs) : Defs[j].name = name

DeclaredSize(name) == Defs[DefOf(name)].size

DeclaredOffset(name) == SizeSum(Defs, DefOf(name) - 1)

\* First float (counted from 0) of the slot of name in instance index
SlotStart(index, name) == index * Stride + DeclaredOffset(name)

InstanceData == gl.data[instanceBuffer]

VertexBufferData == gl.data[buffer]

\* Float p (counted from 1) lies in the slot that starts at float start
InSlot(p, start, size) == p > start /\ p <= start + size

\* ---------------------------------------------------------------------- C1
\* C1: a call setInstanceProperty(index, name, data) with index below
\* instanceCount, a declared name and data of exactly the declared size does
\* not throw, hands bufferSubData the byte offset 4 * (index * stride +
\* offset(name)), and leaves the instance buffer with the floats of that slot
\* equal to data and every other float as it was.
C1_SetInstancePropertyWritesSlot ==
  [][ ( /\ lastOp'.op = "setInstanceProperty"
        /\ lastOp'.index < instanceCount
        /\ IsDeclared(lastOp'.name)
        /\ Len(lastOp'.data) = DeclaredSize(lastOp'.name) )
      => LET start == SlotStart(lastOp'.index, lastOp'.name)
             data == lastOp'.data
             old == gl.data[instanceBuffer]
             new == gl'.data[instanceBuffer]
             calls == lastOp'.calls
         IN /\ lastOp'.threw = "none"
            /\ Len(new) = Len(old)
            /\ \A p \in 1..Len(new) :
                 new[p] = IF InSlot(p, start, Len(data))
                            THEN data[p - start] ELSE old[p]
            /\ \E c \in 1..Len(calls) :
                 /\ calls[c].fn = "bufferSubData"
                 /\ calls[c].a = 4 * start
                 /\ calls[c].ok
            /\ \A c \in 1..Len(calls) :
                 calls[c].fn = "bufferSubData" => calls[c].a = 4 * start
    ]_vars

\* A write to the second attribute of the second instance, into a buffer
\* that holds other written floats
C1_Witness ==
  /\ lastOp.op = "setInstanceProperty"
  /\ lastOp.threw = "none"
  /\ lastOp.index = 1
  /\ lastOp.index < instanceCount
  /\ IsDeclared(lastOp.name)
  /\ DeclaredOffset(lastOp.name) > 0
  /\ Len(lastOp.data) = DeclaredSize(lastOp.name)
  /\ Len(lastOp.data) = 2
  /\ \E p \in 1..Len(InstanceData) :
       /\ ~InSlot(p, SlotStart(lastOp.index, lastOp.name), 2)
       /\ InstanceData[p] # 0

\* ---------------------------------------------------------------------- C2
\* C2: after setInstanceCount(n) the instance buffer holds exactly
\* n * (sum of the declared sizes) floats and all of them are zero, also when
\* n is the count the mesh already had.
C2_SetInstanceCountZeroes ==
  lastOp.op = "setInstanceCount"
    => /\ Len(InstanceData) = lastOp.count * Stride
       /\ \A p \in 1..Len(InstanceData) : InstanceData[p] = 0

\* setInstanceCount with the count unchanged, on a buffer that held written
\* floats
C2_Witness ==
  /\ lastOp.op = "setInstanceCount"
  /\ lastOp.count = lastOp.prevCount
  /\ lastOp.count > 0
  /\ lastOp.prevDirty
  /\ Len(InstanceData) > 0

\* ---------------------------------------------------------------------- C3
\* C3: in every reachable state the instance buffer is instanceCount *
\* instanceAttributeSize floats long (no float while instanceCount is 0, as
\* it is before the first setInstanceCount), and the draw call of a render
\* is given that same instanceCount.
C3_BufferMatchesInstanceCount ==
  /\ Len(InstanceData) = instanceCount * instanceAttributeSize
  /\ lastOp.op = "render" =>
       /\ lastOp.draw.kind # "none"
       /\ lastOp.draw.instances = instanceCount

\* A render of two instances of a stride of at least two floats, some of
\* them written
C3_Witness ==
  /\ lastOp.op = "render"
  /\ instanceCount = 2
  /\ instanceAttributeSize >= 2
  /\ IsDirty(InstanceData)

\* ---------------------------------------------------------------------- C4
\* C4: for definitions of distinct names the Map holds one entry per
\* definition, in order, whose offset is the sum of the sizes before it;
\* instanceAttributeSize is the sum of all sizes; every float of a stride
\* lies in the slot of exactly one attribute; and this holds in every state,
\* whatever setInstanceCount, setInstanceProperty and render calls were made.
C4_LayoutAdditiveAndStable ==
  (\A i, j \in 1..Len(Defs) : i # j => Defs[i].name # Defs[j].name)
    => /\ instanceAttributeSize = Stride
       /\ Len(instanceAttributes) = Len(Defs)
       /\ \A j \in 1..Len(Defs) :
            instanceAttributes[j] =
              [name |-> Defs[j].name, size |-> Defs[j].size,
               offset |-> SizeSum(Defs, j - 1)]
       /\ \A f \in 0..(instanceAttributeSize - 1) :
            Cardinality({ j \in 1..Len(instanceAttributes) :
                            /\ instanceAttributes[j].offset <= f
                            /\ f < instanceAttributes[j].offset
                                     + instanceAttributes[j].size }) = 1

\* Two attributes of different sizes, after instances were allocated and
\* written and a render with the instancing program left its mark
C4_Witness ==
  /\ Len(Defs) = 2
  /\ Defs[1].size = 2
  /\ Defs[2].size = 1
  /\ instanceCount > 0
  /\ IsDirty(InstanceData)
  /\ lastOp.op = "render"
  /\ 2 \in gl.enabled

\* ---------------------------------------------------------------------- C5
\* C5: the vertex buffer holds 5 floats per vertex, position x, y, z then
\* uv u, v, in the order of the vertices array, in every state; and at the
\* draw call of a render the position and uv attributes the program declares
\* read the vertex buffer with a stride of 5 floats, position from byte 0
\* (3 floats) and uv from the byte offset of 3 floats (2 floats).
C5_VertexPacking ==
  /\ Len(VertexBufferData) = 5 * Len(vertices)
  /\ \A i \in 1..Len(vertices) :
       /\ VertexBufferData[5 * (i - 1) + 1] = vertices[i].position[1]
       /\ VertexBufferData[5 * (i - 1) + 2] = vertices[i].position[2]
       /\ VertexBufferData[5 * (i - 1) + 3] = vertices[i].position[3]
       /\ VertexBufferData[5 * (i - 1) + 4] = vertices[i].uv[1]
       /\ VertexBufferData[5 * (i - 1) + 5] = vertices[i].uv[2]
  /\ lastOp.op = "render" =>
       LET pos == getAttribLocation(lastOp.program, lastOp.positionVariableName)
           uv == getAttribLocation(lastOp.program, lastOp.uvAttributeName)
           at == lastOp.draw.at
       IN /\ pos \in Locations =>
               at.pointer[pos] = [buffer |-> buffer, size |-> 3,
                                  stride |-> 5 * 4, offset |-> 0]
          /\ uv \in Locations =>
               at.pointer[uv] = [buffer |-> buffer, size |-> 2,
                                 stride |-> 5 * 4, offset |-> 3 * 4]

\* A render of a mesh of three vertices, not all the same, 15 floats
C5_Witness ==
  /\ Len(vertices) = 3
  /\ vertices[1] # vertices[2]
  /\ Len(VertexBufferData) = 15
  /\ lastOp.op = "render"
  /\ getAttribLocation(lastOp.program, lastOp.uvAttributeName) \in Locations

\* ---------------------------------------------------------------------- C6
\* C6: setInstanceProperty with a name that was not declared throws and
\* makes no GL call: the buffers, the ARRAY_BUFFER binding (all of the
\* context's state) and instanceCount are as before the call.
C6_UnknownNameThrows ==
  [][ ( /\ lastOp'.op = "setInstanceProperty"
        /\ ~IsDeclared(lastOp'.name) )
      => /\ lastOp'.threw = "Attribute not found"
         /\ lastOp'.calls = <<>>
         /\ gl' = gl
         /\ instanceCount' = instanceCount
    ]_vars

\* The throw, on a mesh that declares attributes and holds written floats
C6_Witness ==
  /\ lastOp.op = "setInstanceProperty"
  /\ lastOp.threw = "Attribute not found"
  /\ Len(Defs) > 0
  /\ IsDirty(InstanceData)

\* ---------------------------------------------------------------------- C7
\* C7 (as claimed): whatever the length of data, a setInstanceProperty call
\* with a declared name changes no float outside the slot of the addressed
\* instance and attribute.
C7_WriteStaysInSlot ==
  [][ ( /\ lastOp'.op = "setInstanceProperty"
        /\ IsDeclared(lastOp'.name) )
      => LET start == SlotStart(lastOp'.index, lastOp'.name)
             size == DeclaredSize(lastOp'.name)
             old == gl.data[instanceBuffer]
             new == gl'.data[instanceBuffer]
         IN /\ Len(new) = Len(old)
            /\ \A p \in 1..Len(new) :
                 ~InSlot(p, start, size) => new[p] = old[p]
    ]_vars

\* ---------------------------------------------------------------------- C8
\* C8 (as claimed): render issues drawArrays over all vertexCount vertices
\* when no instance attribute was declared, and drawArraysInstanced with
\* instanceCount instances when some were.
C8_DrawKindFollowsDeclaration ==
  lastOp.op = "render"
    => IF Len(Defs) = 0
         THEN /\ lastOp.draw.kind = "drawArrays"
              /\ lastOp.draw.count = vertexCount
         ELSE /\ lastOp.draw.kind = "drawArraysInstanced"
              /\ lastOp.draw.count = vertexCount
              /\ lastOp.draw.instances = instanceCount

\* ---------------------------------------------------------------------- C9
\* C9 (as claimed): when render returns, every vertex attribute array it
\* enabled is disabled again, no buffer is bound to ARRAY_BUFFER and no
\* program is current.
C9_RenderLeavesCleanState ==
  lastOp.op = "render"
    => /\ \A c \in 1..Len(lastOp.calls) :
            ( /\ lastOp.calls[c].fn = "enableVertexAttribArray"
              /\ lastOp.calls[c].ok )
            => lastOp.calls[c].a \notin gl.enabled
       /\ gl.arrayBuffer = NullBuffer
       /\ gl.program = NullProgram

\* --------------------------------------------------------------------- C10
\* The names render looks up: position, uv and every declared attribute
RenderedNames ==
  {lastOp.positionVariableName, lastOp.uvAttributeName}
    \cup { Defs[j].name : j \in 1..Len(Defs) }

\* C10 (as claimed): a render with a name the program does not declare
\* throws, hands the invalid location to neither enableVertexAttribArray nor
\* vertexAttribPointer, and does not reach the draw call.
C10_MissingAttributeThrows ==
  ( /\ lastOp.op = "render"
    /\ \E n \in RenderedNames :
         getAttribLocation(lastOp.program, n) = InvalidLocation )
    => /\ lastOp.threw # "none"
       /\ \A c \in 1..Len(lastOp.calls) :
            lastOp.calls[c].fn \in {"enableVertexAttribArray",
                                    "vertexAttribPointer"}
            => lastOp.calls[c].a # InvalidLocation
       /\ lastOp.draw.kind = "none"

\* ================================================================= Program
\* The Program class (src/unnamed/part_005; src/unnamed/part_012 is the same
\* code with its setters renamed) and the shader part of the WebGL2 context.
\* In SpecProgram gl holds that part of the context: the current program, the
\* shader objects, the program objects with their uniforms, and the log.

MaxPrograms == 2

\* The variables of the other classes
notProgramVars ==
  <<meshVars, renderManagerVars, schedulerVars, cameraVars, appVars,
    rendererVars>>

\* WebGLShader and WebGLProgram handles are positions in gl.shaders and
\* gl.programs; a handle that is null is 0
NullHandle == 0

\* A shader source is represented by what the GLSL compiler and the linker
\* make of it: whether it compiles, the info log of a failed compilation,
\* the variables it reads from (in) and writes for (out) the other stage,
\* and the uniforms it declares.
Uniform(name, type) == [name |-> name, type |-> type]

TriangleVertexShader ==
  [compiles |-> TRUE, info |-> "", in |-> {}, out |-> {"vUv"},
   uniforms |-> {Uniform("uViewProjectionMatrix", "mat4")}]

TriangleFragmentShader ==
  [compiles |-> TRUE, info |-> "", in |-> {"vUv"}, out |-> {},
   uniforms |-> {Uniform("uTexture", "sampler2D"), Uniform("uTime", "float")}]

\* Reads vColor, which the triangle vertex shader does not write
InstancedFragmentShader ==
  [compiles |-> TRUE, info |-> "", in |-> {"vUv", "vColor"}, out |-> {},
   uniforms |-> {Uniform("uTexture", "sampler2D"), Uniform("uTime", "float")}]

ColourFragmentShader ==
  [compiles |-> TRUE, info |-> "", in |-> {}, out |-> {},
   uniforms |-> {Uniform("uColour", "vec3")}]

\* Any source the compiler rejects
RejectedShader ==
  [compiles |-> FALSE, info |-> "ERROR: 0:1: syntax error", in |-> {},
   out |-> {}, uniforms |-> {}]

VertexShaderSources == {TriangleVertexShader, RejectedShader}
FragmentShaderSources ==
  {TriangleFragmentShader, InstancedFragmentShader, ColourFragmentShader,
   RejectedShader}

LinkInfoLog == "FRAGMENT varying vColor does not match any VERTEX varying"

\* The values the callers pass to the setters, and the value of a uniform
\* that was never set
UniformValues ==
  [int |-> {1}, float |-> {2}, vec3 |-> {<<1, 2, 3>>},
   mat4 |-> {<<1, 0, 0, 0, 0, 1, 0, 0, 0, 0, 1, 0, 0, 0, 0, 1>>}]

DefaultUniformValue(type) ==
  CASE type = "sampler2D" -> 0
    [] type = "float" -> 0
    [] type = "vec3" -> <<0, 0, 0>>
    [] type = "mat4" -> <<0, 0, 0, 0, 0, 0, 0, 0, 0, 0, 0, 0, 0, 0, 0, 0>>

\* ------------------------------------------------ WebGL2 context: shaders
FreshShaderContext ==
  [program |-> NullHandle, shaders |-> <<>>, programs |-> <<>>, log |-> <<>>]

\* createShader and createProgram return null when the context cannot give
\* a handle (handleCreated = FALSE); nothing is created then
createShader(G, type, handleCreated) ==
  IF handleCreated
    THEN Logged([G EXCEPT !.shaders =
                   Append(@, [type |-> type, source |-> RejectedShader,
                              COMPILE_STATUS |-> FALSE, infoLog |-> ""])],
                "createShader", type, TRUE)
    ELSE Logged(G, "createShader", type, FALSE)

shaderSource(G, shader, source) ==
  Logged([G EXCEPT !.shaders[shader].source = source],
         "shaderSource", shader, TRUE)

compileShader(G, shader) ==
  LET source == G.shaders[shader].source
  IN Logged([G EXCEPT !.shaders[shader].COMPILE_STATUS = source.compiles,
                      !.shaders[shader].infoLog = source.info],
            "compileShader", shader, source.compiles)

createProgram(G, handleCreated) ==
  IF handleCreated
    THEN Logged([G EXCEPT !.programs =
                   Append(@, [attached |-> <<>>, LINK_STATUS |-> FALSE,
                              infoLog |-> "", uniforms |-> <<>>])],
                "createProgram", 0, TRUE)
    ELSE Logged(G, "createProgram", 0, FALSE)

attachShader(G, program, shader) ==
  Logged([G EXCEPT !.programs[program].attached = Append(@, shader)],
         "attachShader", shader, TRUE)

\* The active uniforms of a linked program, each with its default value, in
\* the order of their names
ActiveUniforms(declared) ==
  LET Names == { u.name : u \in declared }
      TypeOf(n) == (CHOOSE u \in declared : u.name = n).type
  IN [n \in Names |-> [type |-> TypeOf(n), value |-> DefaultUniformValue(TypeOf(n))]]

\* Linking succeeds when both attached shaders compiled, one is a vertex and
\* one a fragment shader, and every variable the fragment shader reads is
\* written by the vertex shader
linkProgram(G, program) ==
  LET attached == G.programs[program].attached
      vs == { s \in 1..Len(G.shaders) :
                /\ \E i \in 1..Len(attached) : attached[i] = s
                /\ G.shaders[s].type = "VERTEX_SHADER" }
      fs == { s \in 1..Len(G.shaders) :
                /\ \E i \in 1..Len(attached) : attached[i] = s
                /\ G.shaders[s].type = "FRAGMENT_SHADER" }
      linked ==
        /\ Cardinality(vs) = 1
        /\ Cardinality(fs) = 1
        /\ \A s \in vs \cup fs : G.shaders[s].COMPILE_STATUS
        /\ \A f \in fs, v \in vs :
             G.shaders[f].source.in \subseteq G.shaders[v].source.out
      declared == UNION { G.shaders[s].source.uniforms : s \in vs \cup fs }
  IN Logged([G EXCEPT
               !.programs[program].LINK_STATUS = linked,
               !.programs[program].infoLog =
                 IF linked THEN "" ELSE LinkInfoLog,
               !.programs[program].uniforms =
                 IF linked THEN ActiveUniforms(declared) ELSE <<>>],
            "linkProgram", program, linked)

\* A WebGLUniformLocation names a uniform of one program
NullLocation == [program |-> NullHandle, name |-> ""]

getUniformLocation(G, program, name) ==
  IF G.programs[program].LINK_STATUS /\ name \in DOMAIN G.programs[program].uniforms
    THEN [program |-> program, name |-> name]
    ELSE NullLocation

\* The uniform types each gl.uniform* function may set
Accepts(fn) ==
  CASE fn = "uniform1i" -> {"sampler2D"}
    [] fn = "uniform1f" -> {"float"}
    [] fn = "uniform3fv" -> {"vec3"}
    [] fn = "uniformMatrix4fv" -> {"mat4"}

\* gl.uniform1i, uniform1f, uniform3fv and uniformMatrix4fv: the value goes
\* to the uniform of the current program; the call is rejected
\* (INVALID_OPERATION) when no program is current, when the location is of
\* another program, or when the uniform is of another type
uniform(G, fn, location, value) ==
  LET a == [location |-> location, value |-> value, current |-> G.program]
  IN IF /\ G.program # NullHandle
        /\ location.program = G.program
        /\ location.name \in DOMAIN G.programs[G.program].uniforms
        /\ G.programs[G.program].uniforms[location.name].type \in Accepts(fn)
       THEN Logged([G EXCEPT
                      !.programs[G.program].uniforms[location.name].value = value],
                   fn, a, TRUE)
       ELSE Logged(G, fn, a, FALSE)

\* ------------------------------------------------------------ Program class
\* A thrown Error: its message, and the info log the message carries
NoInfo == "no info log"
Error(message, info) == [message |-> message, info |-> info]
NoError == Error("none", NoInfo)

\* A call on a Program: its arguments, the program that was current when it
\* was made, the GL calls it made and the error it threw
ProgramOp(op, G) ==
  [op |-> op, object |-> 0, location |-> NullLocation, value |-> 0,
   vertexShaderSource |-> RejectedShader,
   fragmentShaderSource |-> RejectedShader,
   before |-> NullHandle, threw |-> NoError, calls |-> G.log]

ProgramIdle == ProgramOp("idle", FreshShaderContext)

\* A variant that hands back a shader that did not compile
Program_compileShaderUnchecked(G, type, source, handleCreated) ==
  LET G1 == createShader(G, type, handleCreated)
      shader == Len(G1.shaders)
      G2 == shaderSource(G1, shader, source)
      G3 == compileShader(G2, shader)
  IN IF ~handleCreated
       THEN [gl |-> G1, shader |-> NullHandle,
             threw |-> Error("Failed to create shader", NoInfo)]
       ELSE [gl |-> G3, shader |-> shader, threw |-> NoError]

\* The private method compileShader
Program_compileShader(G, type, source, handleCreated) ==
  LET G1 == createShader(G, type, handleCreated)
      shader == Len(G1.shaders)
      G2 == shaderSource(G1, shader, source)
      G3 == compileShader(G2, shader)
  IN IF ~handleCreated
       THEN [gl |-> G1, shader |-> NullHandle,
             threw |-> Error("Failed to create shader", NoInfo)]
       ELSE IF ~G3.shaders[shader].COMPILE_STATUS
         THEN [gl |-> G3, shader |-> NullHandle,
               threw |-> Error("Failed to compile shader",
                               G3.shaders[shader].infoLog)]
         ELSE [gl |-> G3, shader |-> shader, threw |-> NoError]

\* The private method createProgram
Program_createProgram(G, vertexShader, fragmentShader, handleCreated) ==
  LET G1 == createProgram(G, handleCreated)
      program == Len(G1.programs)
      G2 == attachShader(G1, program, vertexShader)
      G3 == attachShader(G2, program, fragmentShader)
      G4 == linkProgram(G3, program)
  IN IF ~handleCreated
       THEN [gl |-> G1, program |-> NullHandle,
             threw |-> Error("Failed to create program", NoInfo)]
       ELSE IF ~G4.programs[program].LINK_STATUS
         THEN [gl |-> G4, program |-> NullHandle,
               threw |-> Error("Failed to link program",
                               G4.programs[program].infoLog)]
         ELSE [gl |-> G4, program |-> program, threw |-> NoError]

\* The handle the context fails to create during a construction, if any
HandleFailures == {"none", "vertexShader", "fragmentShader", "program"}

\* new Program(gl, vertexShaderSource, fragmentShaderSource); the object
\* exists only when the constructor returns
Program_constructor(vertexShaderSource, fragmentShaderSource, failure) ==
  LET v == Program_compileShader(StartHandler(gl), "VERTEX_SHADER",
             vertexShaderSource, failure # "vertexShader")
      f == Program_compileShader(v.gl, "FRAGMENT_SHADER",
             fragmentShaderSource, failure # "fragmentShader")
      p == Program_createProgram(f.gl, v.shader, f.shader,
             failure # "program")
      end == IF v.threw # NoError THEN [gl |-> v.gl, threw |-> v.threw]
             ELSE IF f.threw # NoError THEN [gl |-> f.gl, threw |-> f.threw]
             ELSE [gl |-> p.gl, threw |-> p.threw]
  IN /\ lastOp = ProgramIdle
     /\ Len(programObjects) < MaxPrograms
     /\ Len(gl.shaders) + 2 <= 2 * MaxPrograms
     /\ gl' = ContextState(end.gl)
     /\ programObjects' =
          IF end.threw = NoError
            THEN Append(programObjects, [program |-> p.program])
            ELSE programObjects
     /\ lastOp' = [ProgramOp("constructor", end.gl) EXCEPT
                     !.object = IF end.threw = NoError
                                  THEN Len(programObjects) + 1 ELSE 0,
                     !.vertexShaderSource = vertexShaderSource,
                     !.fragmentShaderSource = fragmentShaderSource,
                     !.before = gl.program,
                     !.threw = end.threw]
     /\ UNCHANGED notProgramVars

\* use()
use(object) ==
  LET G1 == useProgram(StartHandler(gl), programObjects[object].program)
  IN /\ lastOp = ProgramIdle
     /\ gl' = ContextState(G1)
     /\ lastOp' = [ProgramOp("use", G1) EXCEPT
                     !.object = object, !.before = gl.program]
     /\ UNCHANGED <<notProgramVars, programObjects>>

\* A variant of the setters that leaves out the check of the location
Program_setUniformUnchecked(op, fn, object, location, value) ==
  LET G1 == useProgram(StartHandler(gl), programObjects[object].program)
      G2 == uniform(G1, fn, location, value)
      G3 == useProgram(G2, NullHandle)
  IN /\ lastOp = ProgramIdle
     /\ gl' = ContextState(G3)
     /\ lastOp' = [ProgramOp(op, G3) EXCEPT
                     !.object = object, !.location = location,
                     !.value = value, !.before = gl.program]
     /\ UNCHANGED <<notProgramVars, programObjects>>

\* A variant of the setters that leaves out this.use()
Program_setUniformWithoutUse(op, fn, object, location, value) ==
  /\ lastOp = ProgramIdle
  /\ IF location = NullLocation
       THEN /\ lastOp' = [ProgramOp(op, StartHandler(gl)) EXCEPT
                            !.object = object, !.location = location,
                            !.value = value, !.before = gl.program,
                            !.threw = Error("Uniform location is null", NoInfo)]
            /\ UNCHANGED gl
       ELSE LET G2 == uniform(StartHandler(gl), fn, location, value)
                G3 == useProgram(G2, NullHandle)
            IN /\ gl' = ContextState(G3)
               /\ lastOp' = [ProgramOp(op, G3) EXCEPT
                               !.object = object, !.location = location,
                               !.value = value, !.before = gl.program]
  /\ UNCHANGED <<notProgramVars, programObjects>>

\* The body the four setters share: throw on a null location, else use the
\* program, set the uniform with fn, and make no program current
Program_setUniform(op, fn, object, location, value) ==
  /\ lastOp = ProgramIdle
  /\ IF location = NullLocation
       THEN /\ lastOp' = [ProgramOp(op, StartHandler(gl)) EXCEPT
                            !.object = object, !.location = location,
                            !.value = value, !.before = gl.program,
                            !.threw = Error("Uniform location is null", NoInfo)]
            /\ UNCHANGED gl
       ELSE LET G1 == useProgram(StartHandler(gl),
                        programObjects[object].program)
                G2 == uniform(G1, fn, location, value)
                G3 == useProgram(G2, NullHandle)
            IN /\ gl' = ContextState(G3)
               /\ lastOp' = [ProgramOp(op, G3) EXCEPT
                               !.object = object, !.location = location,
                               !.value = value, !.before = gl.program]
  /\ UNCHANGED <<notProgramVars, programObjects>>

setUniform1i(object, location, value) ==
  Program_setUniform("setUniform1i", "uniform1i", object, location, value)

setUniform1f(object, location, value) ==
  Program_setUniform("setUniform1f", "uniform1f", object, location, value)

setUniform3fv(object, location, value) ==
  Program_setUniform("setUniform3fv", "uniform3fv", object, location, value)

setUniformMat4(object, location, value) ==
  Program_setUniform("setUniformMat4", "uniformMatrix4fv", object, location,
                     value)

\* The locations a caller may hold: null, and what getUniformLocation gave
\* for a uniform name of any Program
UniformNames ==
  { u.name : u \in UNION { src.uniforms :
                             src \in VertexShaderSources
                                       \cup FragmentShaderSources } }

HeldLocations ==
  {NullLocation} \cup
    { getUniformLocation(gl, programObjects[o].program, n) :
        o \in 1..Len(programObjects), n \in UniformNames }

ProgramReturn ==
  /\ lastOp # ProgramIdle
  /\ lastOp' = ProgramIdle
  /\ UNCHANGED <<notProgramVars, gl, programObjects>>

InitProgram ==
  /\ MeshAbsent
  /\ RendererAbsent
  /\ RenderManagerAbsent
  /\ SchedulerAbsent
  /\ CameraAbsent
  /\ AppAbsent
  /\ gl = FreshShaderContext
  /\ lastOp = ProgramIdle
  /\ programObjects = <<>>

NextProgram ==
  \/ \E vs \in VertexShaderSources, fs \in FragmentShaderSources,
        failure \in HandleFailures : Program_constructor(vs, fs, failure)
  \/ \E object \in 1..Len(programObjects) : use(object)
  \/ \E object \in 1..Len(programObjects), location \in HeldLocations,
        value \in UniformValues.int : setUniform1i(object, location, value)
  \/ \E object \in 1..Len(programObjects), location \in HeldLocations,
        value \in UniformValues.float : setUniform1f(object, location, value)
  \/ \E object \in 1..Len(programObjects), location \in HeldLocations,
        value \in UniformValues.vec3 : setUniform3fv(object, location, value)
  \/ \E object \in 1..Len(programObjects), location \in HeldLocations,
        value \in UniformValues.mat4 : setUniformMat4(object, location, value)
  \/ ProgramReturn

SpecProgram == InitProgram /\ [][NextProgram]_vars

\* --------------------------------------------------------------------- C11
Setters == {"setUniform1i", "setUniform1f", "setUniform3fv", "setUniformMat4"}

UniformFunctions == {"uniform1i", "uniform1f", "uniform3fv", "uniformMatrix4fv"}

\* The positions in calls of the gl.uniform* calls
UniformCalls(calls) ==
  { c \in 1..Len(calls) : calls[c].fn \in UniformFunctions }

\* The WebGLProgram of the Program object a call was made on
OwnProgram(op) == programObjects[op.object].program

\* C11: a setter called with a non-null location does not throw and makes
\* exactly one gl.uniform* call, with the location and value it was given,
\* while the WebGLProgram of the Program it was called on is current; the
\* uniforms of every other WebGLProgram are as before the call (also when
\* the location is of another Program); a location of the called Program
\* for a uniform of the setter's type holds the value afterwards; and when
\* the setter returns, no program is current.
C11_SettersWriteOwnProgram ==
  [][ ( /\ lastOp'.op \in Setters
        /\ lastOp'.location # NullLocation )
      => LET own == OwnProgram(lastOp')
             calls == lastOp'.calls
             location == lastOp'.location
         IN /\ lastOp'.threw = NoError
            /\ Cardinality(UniformCalls(calls)) = 1
            /\ \A c \in UniformCalls(calls) :
                 /\ calls[c].a.current = own
                 /\ calls[c].a.location = location
                 /\ calls[c].a.value = lastOp'.value
            /\ \A q \in 1..Len(gl.programs) :
                 q # own => gl'.programs[q] = gl.programs[q]
            /\ \A c \in UniformCalls(calls) :
                 ( /\ location.program = own
                   /\ gl.programs[own].uniforms[location.name].type
                        \in Accepts(calls[c].fn) )
                 => gl'.programs[own].uniforms[location.name].value
                      = lastOp'.value
            /\ gl'.program = NullHandle
    ]_vars

\* A setter called on one Program with a location of another Program, while
\* that other program was current and held a value that was set before
C11_Witness ==
  /\ lastOp.op \in Setters
  /\ lastOp.location # NullLocation
  /\ Len(programObjects) = 2
  /\ lastOp.location.program # OwnProgram(lastOp)
  /\ lastOp.before = lastOp.location.program
  /\ \E n \in DOMAIN gl.programs[lastOp.before].uniforms :
       gl.programs[lastOp.before].uniforms[n].value
         # DefaultUniformValue(gl.programs[lastOp.before].uniforms[n].type)

\* --------------------------------------------------------------------- C12
\* The positions in calls of the calls of the GL function fn
CallsOf(calls, fn) == { c \in 1..Len(calls) : calls[c].fn = fn }

\* The info logs the context holds, after the construction whose GL calls
\* are calls, for the compile and link steps of it that failed
FailedStepLogs(calls, G) ==
  { G.shaders[calls[c].a].infoLog :
      c \in { k \in CallsOf(calls, "compileShader") : ~calls[k].ok } }
  \cup
  { G.programs[calls[c].a].infoLog :
      c \in { k \in CallsOf(calls, "linkProgram") : ~calls[k].ok } }

\* The construction op, which left the context in state G, yielded the
\* Program objects after from the Program objects before: one more object,
\* whose program is linked from a compiled vertex shader of the vertex
\* source and a compiled fragment shader of the fragment source
YieldsLinkedProgram(op, G, before, after) ==
  /\ Len(after) = Len(before) + 1
  /\ \A o \in 1..Len(before) : after[o] = before[o]
  /\ LET program == after[Len(after)].program
     IN /\ program \in 1..Len(G.programs)
        /\ G.programs[program].LINK_STATUS
        /\ Len(G.programs[program].attached) = 2
        /\ LET vs == G.shaders[G.programs[program].attached[1]]
               fs == G.shaders[G.programs[program].attached[2]]
           IN /\ vs.type = "VERTEX_SHADER"
              /\ vs.COMPILE_STATUS
              /\ vs.source = op.vertexShaderSource
              /\ fs.type = "FRAGMENT_SHADER"
              /\ fs.COMPILE_STATUS
              /\ fs.source = op.fragmentShaderSource

\* The order of the steps of the construction op and their number: a failed
\* vertex compile is the only compile and no fragment shader is created; a
\* failed compile comes with no createProgram and no linkProgram; a failed
\* step throws; no shader is compiled twice, there are at most two compiles
\* and at most one link
StepsInOrderAndOnce(op, G) ==
  LET calls == op.calls
      compiles == CallsOf(calls, "compileShader")
      failed == { c \in compiles : ~calls[c].ok }
      links == CallsOf(calls, "linkProgram")
  IN /\ ( \E c \in failed : G.shaders[calls[c].a].type = "VERTEX_SHADER" )
          => /\ Cardinality(compiles) = 1
             /\ \A c \in CallsOf(calls, "createShader") :
                  calls[c].a # "FRAGMENT_SHADER"
     /\ failed # {}
          => /\ CallsOf(calls, "createProgram") = {}
             /\ links = {}
     /\ ( failed # {} \/ \E c \in links : ~calls[c].ok )
          => op.threw # NoError
     /\ Cardinality(compiles) <= 2
     /\ Cardinality({ calls[c].a : c \in compiles }) = Cardinality(compiles)
     /\ Cardinality(links) <= 1

\* C12 (as claimed): a construction either yields a Program whose program
\* was linked from two compiled shaders, or throws an error that carries
\* the info log of the GPU; with the steps in order and made once.
C12_LinkedOrThrowsInfoLog ==
  [][ lastOp'.op = "constructor"
      => /\ IF lastOp'.threw = NoError
              THEN YieldsLinkedProgram(lastOp', gl', programObjects,
                                       programObjects')
              ELSE /\ programObjects' = programObjects
                   /\ lastOp'.threw.info \in FailedStepLogs(lastOp'.calls, gl')
         /\ StepsInOrderAndOnce(lastOp', gl')
    ]_vars

\* C12 (amended): a construction either yields a Program whose program was
\* linked from two compiled shaders, or throws an error; the error carries
\* the info log of the GPU when a compile or a link step failed, and it is
\* thrown with no step failed only when the context gave no shader or
\* program handle; with the steps in order and made once.
C12_LinkedOrThrows ==
  [][ lastOp'.op = "constructor"
      => /\ IF lastOp'.threw = NoError
              THEN YieldsLinkedProgram(lastOp', gl', programObjects,
                                       programObjects')
              ELSE /\ programObjects' = programObjects
                   /\ IF FailedStepLogs(lastOp'.calls, gl') # {}
                        THEN lastOp'.threw.info
                               \in FailedStepLogs(lastOp'.calls, gl')
                        ELSE \E c \in 1..Len(lastOp'.calls) :
                               /\ lastOp'.calls[c].fn
                                    \in {"createShader", "createProgram"}
                               /\ ~lastOp'.calls[c].ok
         /\ StepsInOrderAndOnce(lastOp', gl')
    ]_vars

\* A second construction whose fragment shader does not compile, after a
\* first that yielded a Program
C12_Witness ==
  /\ lastOp.op = "constructor"
  /\ Len(programObjects) = 1
  /\ lastOp.threw.message = "Failed to compile shader"
  /\ lastOp.vertexShaderSource.compiles
  /\ Len(gl.shaders) = 4

\* ============================================================= application
\* The application of exercise 7 (main, src/exercises/exercise-7/src/
\* triangle-object.ts:165-187) with the TriangleObject and the Texture of
\* projects/thor.  It runs as the browser's tasks: main (window.onload), the
\* load or error event of each image, and the animation frames.  In SpecApp
\* gl holds the texture part of the context: the active texture unit, the
\* TEXTURE_2D binding of each unit and the number of textures created.

\* The variables of the other classes
notAppVars ==
  <<meshVars, programVars, canvas, devicePixelRatio, onRenderCallbacks,
    cameraVars, rendererVars>>

\* The animation frames a run renders; frame counts them
MaxFrames == 3

\* The two Texture | null fields of the TriangleObject, and the texture unit
\* render gives each
TextureFields == {"texture", "noiseTexture"}

TextureUnits == {0, 1}

UnitOf(field) == IF field = "texture" THEN 0 ELSE 1

\* The WebGLProgram of the TriangleObject's Program, and the values of its
\* two sampler uniforms (0 after linking)
TriangleProgram == NullHandle + 1

FreshSamplers == [uTexture |-> 0, uNoiseTexture |-> 0]

FreshTextureContext ==
  [activeTexture |-> 0,
   units |-> [u \in TextureUnits |-> NullHandle],
   textures |-> 0,
   program |-> NullHandle,
   samplers |-> FreshSamplers,
   log |-> <<>>]

\* program.setUniform1i(location, value) for the location of the sampler
\* name: this.use(), gl.uniform1i (it sets the uniform of the current
\* program), gl.useProgram(null)
Program_setUniform1i(G, name, value) ==
  LET G1 == useProgram(G, TriangleProgram)
      G2 == IF G1.program = TriangleProgram
              THEN Logged([G1 EXCEPT !.samplers[name] = value],
                          "uniform1i", value, TRUE)
              ELSE Logged(G1, "uniform1i", value, FALSE)
  IN useProgram(G2, NullHandle)

\* gl.createTexture returns null when the context cannot give a handle
createTexture(G, handleCreated) ==
  IF handleCreated
    THEN Logged([G EXCEPT !.textures = @ + 1], "createTexture", 0, TRUE)
    ELSE Logged(G, "createTexture", 0, FALSE)

activeTexture(G, unit) ==
  Logged([G EXCEPT !.activeTexture = unit], "activeTexture", unit, TRUE)

\* gl.bindTexture(gl.TEXTURE_2D, texture) binds in the active unit
bindTexture(G, texture) ==
  Logged([G EXCEPT !.units[G.activeTexture] = texture],
         "bindTexture", texture, TRUE)

\* new Texture(gl, image, options): the handle of the texture, or the throw
Texture_constructor(G, handleCreated) ==
  LET G1 == createTexture(G, handleCreated)
      texture == G1.textures
      G2 == bindTexture(G1, texture)
      G3 == Logged(G2, "pixelStorei", 0, TRUE)
      G4 == Logged(Logged(Logged(Logged(G3,
              "texParameteri", 0, TRUE), "texParameteri", 0, TRUE),
              "texParameteri", 0, TRUE), "texParameteri", 0, TRUE)
      G5 == Logged(G4, "texImage2D", texture, TRUE)
      G6 == Logged(G5, "generateMipmap", texture, TRUE)
      G7 == bindTexture(G6, NullHandle)
  IN IF ~handleCreated
       THEN [gl |-> G1, texture |-> NullHandle,
             threw |-> Error("Failed to create texture", NoInfo)]
       ELSE [gl |-> G7, texture |-> texture, threw |-> NoError]

\* texture.bind(unit), called on the value of a Texture | null field: a call
\* on null throws a TypeError
Texture_bind(G, texture, unit) ==
  IF texture = NullHandle
    THEN [gl |-> G, threw |-> Error("TypeError", NoInfo)]
    ELSE [gl |-> bindTexture(activeTexture(G, unit), texture),
          threw |-> NoError]

\* A variant of unbindAll that goes from unit 0 up to the highest unit
RECURSIVE UnbindUpwards(_, _, _)
UnbindUpwards(G, i, maxTextureUnit) ==
  IF i > maxTextureUnit THEN G
  ELSE UnbindUpwards(bindTexture(activeTexture(G, i), NullHandle), i + 1,
                     maxTextureUnit)

Texture_unbindAllUpwards(G, i) == UnbindUpwards(G, 0, i)

\* Texture.unbindAll(gl, maxTextureUnit): from the highest unit down to 0
RECURSIVE Texture_unbindAll(_, _)
Texture_unbindAll(G, i) ==
  IF i < 0 THEN G
  ELSE Texture_unbindAll(bindTexture(activeTexture(G, i), NullHandle), i - 1)

\* A task of the application: the image it is about, the textures whose
\* promise was fulfilled when it started, the GL calls it made, the texture
\* bindings at its draw call and the error it threw
NoDrawCall ==
  [done |-> FALSE, units |-> [u \in TextureUnits |-> NullHandle],
   program |-> NullHandle, samplers |-> FreshSamplers]

\* The draw call of mesh.render, made in context G
TexturedDrawCall(G) ==
  [done |-> TRUE, units |-> G.units, program |-> G.program,
   samplers |-> G.samplers]

\* mesh.render(program, 'aPosition', 'aUv'): program.use(), the draw call,
\* gl.useProgram(null)
Mesh_render(G) ==
  LET G1 == useProgram(G, TriangleProgram)
      G2 == Logged(G1, "drawArraysInstanced", 0, TRUE)
  IN [gl |-> useProgram(G2, NullHandle), draw |-> TexturedDrawCall(G2)]

AppOp(op, G) ==
  [op |-> op, image |-> "", completed |-> {}, calls |-> G.log,
   draw |-> NoDrawCall, threw |-> NoError]

AppIdle == AppOp("idle", FreshTextureContext)

\* The setup steps of main that can throw, in the order main reaches them:
\* the RenderManager, the Mesh and the Program constructors
SetupFailures ==
  <<"Canvas element not found", "WebGL2 not supported",
    "Failed to create buffer", "Failed to create instance buffer",
    "Failed to create shader", "Failed to compile shader",
    "Failed to create program", "Failed to link program">>

\* The TriangleObject: whether main has constructed it, and its two fields
NoTriangleObject ==
  [constructed |-> FALSE, texture |-> NullHandle, noiseTexture |-> NullHandle]

\* Texture.fromURL(gl, url): a new Image whose src is set, and a Promise
StartedImage ==
  [state |-> "loading", promise |-> "pending", constructed |-> 0,
   requests |-> 1]

\* main, with the setup step that fails (0: none).  A failure throws out of
\* main; otherwise the TriangleObject exists with both of its textures
\* loading, and startRendering has requested the first frame
main(failure) ==
  /\ lastOp = AppIdle
  /\ ~triangleObject.constructed
  /\ errors = <<>>
  /\ IF failure # 0
       THEN /\ errors' = Append(errors, [message |-> SetupFailures[failure],
                                         to |-> "caller"])
            /\ lastOp' = [AppOp("main", StartHandler(gl)) EXCEPT
                            !.threw = Error(SetupFailures[failure], NoInfo)]
            /\ UNCHANGED <<triangleObject, images, animationFrameCallbacks>>
       ELSE /\ triangleObject' = [NoTriangleObject EXCEPT !.constructed = TRUE]
            /\ images' = [f \in TextureFields |-> StartedImage]
            /\ animationFrameCallbacks' = animationFrameCallbacks + 1
            /\ lastOp' = AppOp("main", StartHandler(gl))
            /\ UNCHANGED errors
  /\ UNCHANGED <<gl, frame, notAppVars>>

\* A variant of image.onerror that resolves the promise with a new Texture
\* made of the broken image
ImageErrorStillConstructs(field) ==
  LET t == Texture_constructor(StartHandler(gl), TRUE)
  IN /\ lastOp = AppIdle
     /\ triangleObject.constructed
     /\ images[field].state = "loading"
     /\ images' = [images EXCEPT ![field].state = "error",
                                 ![field].promise = "fulfilled",
                                 ![field].constructed = @ + 1]
     /\ triangleObject' = [triangleObject EXCEPT ![field] = t.texture]
     /\ gl' = ContextState(t.gl)
     /\ lastOp' = [AppOp("onerror", t.gl) EXCEPT !.image = field]
     /\ UNCHANGED <<errors, animationFrameCallbacks, frame, notAppVars>>

\* image.onerror: reject(error); nothing handles the rejection
ImageError(field) ==
  /\ lastOp = AppIdle
  /\ triangleObject.constructed
  /\ images[field].state = "loading"
  /\ images' = [images EXCEPT ![field].state = "error",
                              ![field].promise = "rejected"]
  /\ errors' = Append(errors, [message |-> "image error", to |-> "promise"])
  /\ lastOp' = [AppOp("onerror", StartHandler(gl)) EXCEPT !.image = field]
  /\ UNCHANGED <<gl, triangleObject, animationFrameCallbacks, frame,
                 notAppVars>>

\* image.onload: resolve(new Texture(gl, image, options)), and then the
\* callback given to then() stores the Texture in the field.  When the
\* constructor throws, the error leaves the event handler and the promise
\* stays pending
ImageLoad(field, handleCreated) ==
  LET t == Texture_constructor(StartHandler(gl), handleCreated)
  IN /\ lastOp = AppIdle
     /\ triangleObject.constructed
     /\ images[field].state = "loading"
     /\ gl' = ContextState(t.gl)
     /\ IF t.threw = NoError
          THEN /\ images' = [images EXCEPT ![field].state = "load",
                                           ![field].promise = "fulfilled",
                                           ![field].constructed = @ + 1]
               /\ triangleObject' = [triangleObject EXCEPT ![field] = t.texture]
               /\ UNCHANGED errors
          ELSE /\ images' = [images EXCEPT ![field].state = "load",
                                           ![field].constructed = @ + 1]
               /\ errors' = Append(errors, [message |-> t.threw.message,
                                            to |-> "event handler"])
               /\ UNCHANGED triangleObject
     /\ lastOp' = [AppOp("onload", t.gl) EXCEPT
                     !.image = field, !.threw = t.threw]
     /\ UNCHANGED <<animationFrameCallbacks, frame, notAppVars>>

\* A variant of render that binds both textures whether they are loaded or
\* not
TriangleObject_renderUnguarded(G, object) ==
  LET b0 == Texture_bind(G, object["texture"], 0)
      b1 == Texture_bind(b0.gl, object["noiseTexture"], 1)
      m == Mesh_render(b1.gl)
  IN IF b0.threw # NoError
       THEN [gl |-> b0.gl, threw |-> b0.threw, draw |-> NoDrawCall]
       ELSE IF b1.threw # NoError
         THEN [gl |-> b1.gl, threw |-> b1.threw, draw |-> NoDrawCall]
         ELSE [gl |-> Texture_unbindAll(m.gl, 1), threw |-> NoError,
               draw |-> m.draw]

\* A variant of render that never increments textureUnit
TriangleObject_renderOneUnit(G, object) ==
  LET b0 == IF object["texture"] # NullHandle
              THEN Texture_bind(G, object["texture"], 0)
              ELSE [gl |-> G, threw |-> NoError]
      G2 == Program_setUniform1i(b0.gl, "uTexture", 0)
      b1 == IF object["noiseTexture"] # NullHandle
              THEN Texture_bind(G2, object["noiseTexture"], 0)
              ELSE [gl |-> G2, threw |-> NoError]
      G3 == Program_setUniform1i(b1.gl, "uNoiseTexture", 0)
      m == Mesh_render(G3)
  IN [gl |-> Texture_unbindAll(m.gl, 0), threw |-> NoError, draw |-> m.draw]

\* TriangleObject.render: the uniforms (their locations are not null, the
\* shaders use all of them), each texture bound to its unit when the field is
\* not null, the draw call of the mesh, and unbindAll
TriangleObject_render(G, object) ==
  LET G0 == useProgram(Logged(useProgram(G, TriangleProgram),
                              "uniformMatrix4fv", 0, TRUE), NullHandle)
      G1 == useProgram(Logged(useProgram(G0, TriangleProgram),
                              "uniform1f", 0, TRUE), NullHandle)
      b0 == IF object["texture"] # NullHandle
              THEN Texture_bind(G1, object["texture"], 0)
              ELSE [gl |-> G1, threw |-> NoError]
      G2 == Program_setUniform1i(b0.gl, "uTexture", 0)
      b1 == IF object["noiseTexture"] # NullHandle
              THEN Texture_bind(G2, object["noiseTexture"], 1)
              ELSE [gl |-> G2, threw |-> NoError]
      G3 == Program_setUniform1i(b1.gl, "uNoiseTexture", 1)
      m == Mesh_render(G3)
  IN [gl |-> Texture_unbindAll(m.gl, 1), threw |-> NoError, draw |-> m.draw]

\* An animation frame: RenderManager.render clears, calls the one callback,
\* which renders the triangle, and requests the next frame; a callback that
\* throws ends the frame before the request
Frame ==
  LET G0 == Logged(StartHandler(gl), "clear", 0, TRUE)
      r == TriangleObject_render(G0, triangleObject)
  IN /\ lastOp = AppIdle
     /\ animationFrameCallbacks > 0
     /\ frame < MaxFrames
     /\ frame' = frame + 1
     /\ gl' = ContextState(r.gl)
     /\ animationFrameCallbacks' =
          IF r.threw = NoError
            THEN animationFrameCallbacks
            ELSE animationFrameCallbacks - 1
     /\ errors' = IF r.threw = NoError THEN errors
                  ELSE Append(errors, [message |-> r.threw.message,
                                       to |-> "animation frame"])
     /\ lastOp' = [AppOp("frame", r.gl) EXCEPT
                     !.completed = { f \in TextureFields :
                                       images[f].promise = "fulfilled" },
                     !.draw = r.draw, !.threw = r.threw]
     /\ UNCHANGED <<triangleObject, images, notAppVars>>

\* The task ends and the browser may run the next one
AppReturn ==
  /\ lastOp # AppIdle
  /\ lastOp' = AppIdle
  /\ UNCHANGED <<gl, triangleObject, images, errors, animationFrameCallbacks,
                 frame, notAppVars>>

InitApp ==
  /\ MeshAbsent
  /\ ProgramAbsent
  /\ RendererAbsent
  /\ canvas = Absent
  /\ devicePixelRatio = Absent
  /\ onRenderCallbacks = Absent
  /\ frame = 0
  /\ CameraAbsent
  /\ gl = FreshTextureContext
  /\ lastOp = AppIdle
  /\ triangleObject = NoTriangleObject
  /\ images = <<>>
  /\ errors = <<>>
  /\ animationFrameCallbacks = 0

NextApp ==
  \/ \E failure \in 0..Len(SetupFailures) : main(failure)
  \/ \E field \in TextureFields, handleCreated \in BOOLEAN :
       ImageLoad(field, handleCreated)
  \/ \E field \in TextureFields : ImageError(field)
  \/ Frame
  \/ AppReturn

SpecApp == InitApp /\ [][NextApp]_vars

\* ----------------------------------------------------------------- C13
\* C13: however the load events of the images interleave with the animation
\* frames, TriangleObject.render runs to completion and never calls bind on
\* null: at the draw call of a frame the unit of a texture holds that texture
\* if and only if its load completed (the promise of Texture.fromURL was
\* fulfilled) before the frame started, and holds nothing otherwise; a
\* texture field that holds a Texture keeps that Texture in every step.
FrameBindsCompletedLoads ==
  lastOp.op = "frame" =>
    /\ lastOp.threw = NoError
    /\ lastOp.draw.done
    /\ \A f \in TextureFields :
         /\ lastOp.draw.units[UnitOf(f)] # NullHandle <=> f \in lastOp.completed
         /\ f \in lastOp.completed =>
              lastOp.draw.units[UnitOf(f)] = triangleObject[f]

FieldsSetOnce ==
  triangleObject.constructed =>
    \A f \in TextureFields :
      triangleObject[f] # NullHandle => triangleObject'[f] = triangleObject[f]

C13_RenderToleratesPendingTextures ==
  [][FieldsSetOnce /\ FrameBindsCompletedLoads']_vars

\* A second frame, rendered after the noise texture loaded between two frames
\* and while the other texture is still loading
C13_Witness ==
  /\ lastOp.op = "frame"
  /\ frame >= 2
  /\ lastOp.completed = {"noiseTexture"}
  /\ images["texture"].state = "loading"
  /\ lastOp.draw.units[1] = triangleObject["noiseTexture"]
  /\ lastOp.draw.units[0] = NullHandle

\* ----------------------------------------------------------------- C14
\* C14: once an image failed to load, the promise of Texture.fromURL is
\* rejected, the Texture constructor has not run for it and no GPU texture
\* exists for it, its load was requested once only, the field of the owning
\* object is null, the failure is never undone, and a frame rendered
\* afterwards reaches its draw call with nothing bound to that texture's unit.
FailedImages == { f \in TextureFields : images[f].state = "error" }

FailedLoadLeavesNull ==
  triangleObject.constructed =>
    /\ gl.textures <= Cardinality(TextureFields \ FailedImages)
    /\ \A f \in FailedImages :
         /\ images[f].promise = "rejected"
         /\ images[f].constructed = 0
         /\ images[f].requests = 1
         /\ triangleObject[f] = NullHandle
         /\ lastOp.op = "frame" =>
              /\ lastOp.threw = NoError
              /\ lastOp.draw.done
              /\ lastOp.draw.units[UnitOf(f)] = NullHandle

FailureIsFinal ==
  triangleObject.constructed =>
    \A f \in TextureFields :
      images[f].state = "error" => images'[f].state = "error"

C14_FailedLoadIsSkipped == [][FailureIsFinal /\ FailedLoadLeavesNull']_vars

\* A frame rendered after the texture image failed and the noise image loaded
C14_Witness ==
  /\ lastOp.op = "frame"
  /\ images["texture"].state = "error"
  /\ images["noiseTexture"].state = "load"
  /\ lastOp.draw.done
  /\ lastOp.draw.units[0] = NullHandle
  /\ lastOp.draw.units[1] # NullHandle

\* ============================================================ RenderManager
\* The RenderManager with its list of render callbacks (src/unnamed/part_004)
\* and the animation-frame scheduler of the browser.  In SpecRenderManager gl
\* holds the viewport and the clear colour, animationFrameCallbacks the
\* number of pending requests for this.render, and frame the animation frame
\* the browser is running: the requests it still has to run and the number of
\* times it has run render.

MaxCallbacks == 2
MaxPending == 2
MaxClientSize == 1

\* The variables of the other classes
notRenderManagerVars ==
  <<meshVars, programVars, cameraVars, appVars, rendererVars>>

\* The callbacks an application registers
Callbacks == 1..MaxCallbacks

\* Device pixel ratios, as numerator and denominator
DevicePixelRatios == {<<1, 1>>, <<5, 4>>, <<3, 2>>, <<2, 1>>}

\* A new canvas element is 300 by 150
NewCanvas(clientWidth, clientHeight) ==
  [clientWidth |-> clientWidth, clientHeight |-> clientHeight,
   width |-> 300, height |-> 150]

FreshRenderContext == [viewport |-> <<0, 0, 300, 150>>,
                       clearColor |-> <<0, 0, 0, 0>>,
                       log |-> <<>>]

\* The product clientWidth * devicePixelRatio, as numerator and denominator
Times(n, ratio) == <<n * ratio[1], ratio[2]>>

\* canvas.width = value: the conversion to unsigned long drops the fraction,
\* and a value above 2^31 - 1 gives the default
ToUnsignedLong(value, default) ==
  LET x == value[1] \div value[2]
  IN IF x > 2147483647 THEN default ELSE x

\* A GLsizei parameter rounded to the nearest integer
ToLongRounded(value) == (2 * value[1] + value[2]) \div (2 * value[2])

\* A GLsizei parameter given a number: the conversion to long drops the
\* fraction
ToLong(value) == value[1] \div value[2]

\* gl.viewport(x, y, width, height); a negative size is an INVALID_VALUE
viewport(G, x, y, width, height) ==
  IF width < 0 \/ height < 0
    THEN Logged(G, "viewport", <<x, y, width, height>>, FALSE)
    ELSE Logged([G EXCEPT !.viewport = <<x, y, width, height>>],
                "viewport", <<x, y, width, height>>, TRUE)

\* drawColor(r, g, b, a), the colour in tenths
drawColor(G, r, g, b, a) ==
  Logged(Logged([G EXCEPT !.clearColor = <<r, g, b, a>>],
                "clearColor", <<r, g, b, a>>, TRUE),
         "clear", <<>>, TRUE)

\* for (const callback of this.onRenderCallbacks) callback(), from index i on
RECURSIVE RunCallbacks(_, _, _)
RunCallbacks(G, callbacks, i) ==
  IF i > Len(callbacks) THEN G
  ELSE RunCallbacks(Logged(G, "callback", callbacks[i], TRUE), callbacks, i + 1)

\* A call on the RenderManager or a run of its render handler: the callbacks
\* registered and the canvas when it started, and what it did, in order
NoFrame == [pending |-> 0, rendered |-> 0]

RenderManagerOp(op, G) ==
  [op |-> op, registered |-> <<>>, calls |-> G.log]

RenderManagerIdle == RenderManagerOp("idle", FreshRenderContext)

\* No handler is running: the last one returned and the browser is not in the
\* middle of the callbacks of an animation frame
BetweenTasks ==
  /\ lastOp = RenderManagerIdle
  /\ frame.pending = 0

\* startRendering()
startRendering ==
  /\ BetweenTasks
  /\ animationFrameCallbacks < MaxPending
  /\ animationFrameCallbacks' = animationFrameCallbacks + 1
  /\ lastOp' = RenderManagerOp("startRendering", StartHandler(gl))
  /\ UNCHANGED <<gl, canvas, devicePixelRatio, onRenderCallbacks, frame,
                 notRenderManagerVars>>

\* addRenderCallback(callback)
addRenderCallback(callback) ==
  /\ BetweenTasks
  /\ Len(onRenderCallbacks) < MaxCallbacks
  /\ onRenderCallbacks' = Append(onRenderCallbacks, callback)
  /\ lastOp' = RenderManagerOp("addRenderCallback", StartHandler(gl))
  /\ UNCHANGED <<gl, canvas, devicePixelRatio, animationFrameCallbacks, frame,
                 notRenderManagerVars>>

\* The page lays the canvas out again, or the window moves to another screen
Resize(clientWidth, clientHeight, ratio) ==
  /\ BetweenTasks
  /\ <<clientWidth, clientHeight, ratio>> #
       <<canvas.clientWidth, canvas.clientHeight, devicePixelRatio>>
  /\ canvas' = [canvas EXCEPT !.clientWidth = clientWidth,
                              !.clientHeight = clientHeight]
  /\ devicePixelRatio' = ratio
  /\ UNCHANGED <<gl, lastOp, onRenderCallbacks, animationFrameCallbacks, frame,
                 notRenderManagerVars>>

\* The browser starts an animation frame: it takes the pending requests, and
\* will run each of them once
AnimationFrame ==
  /\ BetweenTasks
  /\ animationFrameCallbacks > 0
  /\ frame' = [pending |-> animationFrameCallbacks, rendered |-> 0]
  /\ animationFrameCallbacks' = 0
  /\ UNCHANGED <<gl, lastOp, canvas, devicePixelRatio, onRenderCallbacks,
                 notRenderManagerVars>>

\* A variant of render that requests the next frame before it runs the
\* callbacks
RenderManager_renderRequestsFirst(G, c, ratio, callbacks) ==
  LET width == Times(c.clientWidth, ratio)
      height == Times(c.clientHeight, ratio)
      c1 == [c EXCEPT !.width = ToUnsignedLong(width, 300)]
      c2 == [c1 EXCEPT !.height = ToUnsignedLong(height, 150)]
      G1 == Logged(Logged(G, "canvas.width", c2.width, TRUE),
                   "canvas.height", c2.height, TRUE)
      G2 == viewport(G1, 0, 0, ToLong(width), ToLong(height))
      G3 == drawColor(G2, 0, 5, 8, 10)
      G4 == Logged(G3, "requestAnimationFrame", 0, TRUE)
      G5 == RunCallbacks(G4, callbacks, 1)
  IN [gl |-> G5, canvas |-> c2]

\* render: the canvas and the context it leaves
RenderManager_render(G, c, ratio, callbacks) ==
  LET width == Times(c.clientWidth, ratio)
      height == Times(c.clientHeight, ratio)
      c1 == [c EXCEPT !.width = ToUnsignedLong(width, 300)]
      c2 == [c1 EXCEPT !.height = ToUnsignedLong(height, 150)]
      G1 == Logged(Logged(G, "canvas.width", c2.width, TRUE),
                   "canvas.height", c2.height, TRUE)
      G2 == viewport(G1, 0, 0, ToLong(width), ToLong(height))
      G3 == drawColor(G2, 0, 5, 8, 10)
      G4 == RunCallbacks(G3, callbacks, 1)
      G5 == Logged(G4, "requestAnimationFrame", 0, TRUE)
  IN [gl |-> G5, canvas |-> c2]

\* The browser runs one of the requests of the animation frame: render
RenderManagerRender ==
  LET r == RenderManager_render(StartHandler(gl), canvas, devicePixelRatio,
                                onRenderCallbacks)
  IN /\ lastOp = RenderManagerIdle
     /\ frame.pending > 0
     /\ frame' = [pending |-> frame.pending - 1,
                  rendered |-> frame.rendered + 1]
     /\ canvas' = r.canvas
     /\ gl' = ContextState(r.gl)
     /\ animationFrameCallbacks' = animationFrameCallbacks + 1
     /\ lastOp' = [RenderManagerOp("render", r.gl) EXCEPT
                     !.registered = onRenderCallbacks]
     /\ UNCHANGED <<devicePixelRatio, onRenderCallbacks, notRenderManagerVars>>

\* The handler returns
RenderManagerReturn ==
  /\ lastOp # RenderManagerIdle
  /\ lastOp' = RenderManagerIdle
  /\ UNCHANGED <<gl, canvas, devicePixelRatio, onRenderCallbacks,
                 animationFrameCallbacks, frame, notRenderManagerVars>>

\* new RenderManager(canvas), for a canvas of any client size on any screen
InitRenderManager ==
  /\ MeshAbsent
  /\ ProgramAbsent
  /\ RendererAbsent
  /\ CameraAbsent
  /\ AppAbsent
  /\ \E clientWidth \in 0..MaxClientSize, clientHeight \in 0..MaxClientSize :
       canvas = NewCanvas(clientWidth, clientHeight)
  /\ devicePixelRatio \in DevicePixelRatios
  /\ gl = FreshRenderContext
  /\ lastOp = RenderManagerIdle
  /\ onRenderCallbacks = <<>>
  /\ animationFrameCallbacks = 0
  /\ frame = NoFrame

NextRenderManager ==
  \/ startRendering
  \/ \E callback \in Callbacks : addRenderCallback(callback)
  \/ \E clientWidth \in 0..MaxClientSize, clientHeight \in 0..MaxClientSize,
        ratio \in DevicePixelRatios : Resize(clientWidth, clientHeight, ratio)
  \/ AnimationFrame
  \/ RenderManagerRender
  \/ RenderManagerReturn

SpecRenderManager == InitRenderManager /\ [][NextRenderManager]_vars

\* ----------------------------------------------------------------- C15
\* C15: in every run of RenderManager.render the canvas is resized, the
\* viewport set and the canvas cleared before the first callback runs; the
\* callbacks invoked are exactly those registered before the frame, each
\* once, in registration order; and the next animation frame is requested
\* once, after the last callback.
IsCallback(c) == c.fn = "callback"

Positions(calls, fn) == { i \in 1..Len(calls) : calls[i].fn = fn }

Precedes(I, J) == \A i \in I, j \in J : i < j

InvokedCallbacks(calls) ==
  LET invoked == SelectSeq(calls, IsCallback)
  IN [i \in 1..Len(invoked) |-> invoked[i].a]

C16_OnePendingRequest ==
  /\ animationFrameCallbacks + frame.pending <= 1
  /\ frame.rendered <= 1

\* ----------------------------------------------------------------- C17
\* C17: when render has run, the viewport is (0, 0, canvas.width,
\* canvas.height), and canvas.width and canvas.height are the whole pixels of
\* clientWidth and clientHeight times devicePixelRatio, for every client size
\* and every ratio, fractional ones included.
WholePixels(size, clientSize, ratio) ==
  /\ size * ratio[2] <= clientSize * ratio[1]
  /\ clientSize * ratio[1] < (size + 1) * ratio[2]

C17_ViewportIsCanvasSize ==
  lastOp.op = "render" =>
    /\ gl.viewport = <<0, 0, canvas.width, canvas.height>>
    /\ WholePixels(canvas.width, canvas.clientWidth, devicePixelRatio)
    /\ WholePixels(canvas.height, canvas.clientHeight, devicePixelRatio)

\* A frame on a screen of ratio 3/2 with a canvas one CSS pixel wide: 1.5
\* device pixels, a canvas and a viewport of width 1
C17_Witness ==
  /\ lastOp.op = "render"
  /\ devicePixelRatio = <<3, 2>>
  /\ canvas.clientWidth = 1
  /\ canvas.width = 1
  /\ gl.viewport[3] = 1

\* =================================================================== Camera
\* The Camera of projects/thor (src/projects/thor/src/camera.ts).  Numbers
\* are exact fractions <<numerator, denominator>> with a positive
\* denominator; a mat4 is the sequence of its 16 entries in the column-major
\* order of gl-matrix, entry out[k] of the code at position k + 1.  In
\* SpecCamera canvas holds the width and height of the canvas the camera
\* looks at.

MaxCanvasSize == 3
MaxPosition == 1

RECURSIVE Gcd(_, _)
Gcd(a, b) == IF b = 0 THEN a ELSE Gcd(b, a % b)

Abs(n) == IF n < 0 THEN 0 - n ELSE n

\* The fraction n / d (d not zero) in lowest terms
Fraction(n, d) ==
  LET g == Gcd(Abs(n), Abs(d))
  IN IF d < 0 THEN <<(0 - n) \div g, (0 - d) \div g>> ELSE <<n \div g, d \div g>>

Number(n) == <<n, 1>>

Product(a, b) == Fraction(a[1] * b[1], a[2] * b[2])

Quotient(a, b) == Fraction(a[1] * b[2], a[2] * b[1])

Sum(a, b) == Fraction(a[1] * b[2] + b[1] * a[2], a[2] * b[2])

Negated(a) == <<0 - a[1], a[2]>>

\* mat4.create(): the identity
mat4_create ==
  [i \in 1..16 |-> IF i \in {1, 6, 11, 16} THEN Number(1) ELSE Number(0)]

\* mat4.fromScaling(out, v)
mat4_fromScaling(v) ==
  [i \in 1..16 |-> CASE i = 1 -> v[1] [] i = 6 -> v[2] [] i = 11 -> v[3]
                     [] i = 16 -> Number(1) [] OTHER -> Number(0)]

\* mat4.fromTranslation(out, v)
mat4_fromTranslation(v) ==
  [i \in 1..16 |-> CASE i = 13 -> v[1] [] i = 14 -> v[2] [] i = 15 -> v[3]
                     [] OTHER -> mat4_create[i]]

\* The product with the operands exchanged, b * a
mat4_multiplyReversed(a, b) ==
  [i \in 1..16 |->
     LET column == (i - 1) \div 4
         row == (i - 1) % 4
         Term(k) == Product(b[k * 4 + row + 1], a[column * 4 + k + 1])
     IN Sum(Sum(Term(0), Term(1)), Sum(Term(2), Term(3)))]

\* mat4.multiply(out, a, b): the matrix product a * b
mat4_multiply(a, b) ==
  [i \in 1..16 |->
     LET column == (i - 1) \div 4
         row == (i - 1) % 4
         Term(k) == Product(a[k * 4 + row + 1], b[column * 4 + k + 1])
     IN Sum(Sum(Term(0), Term(1)), Sum(Term(2), Term(3)))]

\* getViewProjectionMatrix of a camera at p with zoom z on canvas c
Camera_getViewProjectionMatrix(c, p, z) ==
  LET aspectRatio == Quotient(Number(c.width), Number(c.height))
      screenHeight == Number(2)
      screenWidth == Product(screenHeight, aspectRatio)
      zoomedScreenHeight == Quotient(screenHeight, z)
      zoomedScreenWidth == Quotient(screenWidth, z)
      clipSpaceRange == Number(2)
      scaleX == Quotient(clipSpaceRange, zoomedScreenWidth)
      scaleY == Quotient(clipSpaceRange, zoomedScreenHeight)
      scalingMatrix == mat4_fromScaling(<<scaleX, scaleY, Number(1)>>)
      translationMatrix ==
        mat4_fromTranslation(<<Negated(p[1]), Negated(p[2]), Number(0)>>)
  IN mat4_multiply(scalingMatrix, translationMatrix)

\* The zooms and the positions an application gives its camera
Zooms == {<<1, 2>>, <<1, 1>>, <<2, 1>>, <<3, 1>>}

Coordinates == { Number(n) : n \in (0 - MaxPosition)..MaxPosition }

\* A call on the camera: the matrix it returned and the fields before it
CameraOp(op, result) ==
  [op |-> op, result |-> result, position |-> position, zoom |-> zoom]

CameraIdle == [op |-> "idle", result |-> <<>>, position |-> <<>>, zoom |-> <<>>]

\* camera.zoom = z
SetZoom(z) ==
  /\ lastOp = CameraIdle
  /\ z # zoom
  /\ zoom' = z
  /\ UNCHANGED <<position, canvas, lastOp, gl, meshVars, programVars,
                 devicePixelRatio, onRenderCallbacks, frame, schedulerVars,
                 appVars, rendererVars>>

\* camera.position[0] = x; camera.position[1] = y
SetPosition(x, y) ==
  /\ lastOp = CameraIdle
  /\ <<x, y>> # position
  /\ position' = <<x, y>>
  /\ UNCHANGED <<zoom, canvas, lastOp, gl, meshVars, programVars,
                 devicePixelRatio, onRenderCallbacks, frame, schedulerVars,
                 appVars, rendererVars>>

\* The RenderManager gives the canvas another size
CanvasResized(width, height) ==
  /\ lastOp = CameraIdle
  /\ canvas # [width |-> width, height |-> height]
  /\ canvas' = [width |-> width, height |-> height]
  /\ UNCHANGED <<position, zoom, lastOp, gl, meshVars, programVars,
                 devicePixelRatio, onRenderCallbacks, frame, schedulerVars,
                 appVars, rendererVars>>

\* getViewProjectionMatrix()
getViewProjectionMatrix ==
  /\ lastOp = CameraIdle
  /\ lastOp' = CameraOp("getViewProjectionMatrix",
                        Camera_getViewProjectionMatrix(canvas, position, zoom))
  /\ UNCHANGED <<position, zoom, canvas, gl, meshVars, programVars,
                 devicePixelRatio, onRenderCallbacks, frame, schedulerVars,
                 appVars, rendererVars>>

CameraReturn ==
  /\ lastOp # CameraIdle
  /\ lastOp' = CameraIdle
  /\ UNCHANGED <<position, zoom, canvas, gl, meshVars, programVars,
                 devicePixelRatio, onRenderCallbacks, frame, schedulerVars,
                 appVars, rendererVars>>

\* new Camera(canvas): position (0, 0), zoom 1, on a canvas of any size
InitCamera ==
  /\ MeshAbsent
  /\ ProgramAbsent
  /\ RendererAbsent
  /\ SchedulerAbsent
  /\ AppAbsent
  /\ devicePixelRatio = Absent
  /\ onRenderCallbacks = Absent
  /\ frame = Absent
  /\ gl = Absent
  /\ \E width \in 1..MaxCanvasSize, height \in 1..MaxCanvasSize :
       canvas = [width |-> width, height |-> height]
  /\ position = <<Number(0), Number(0)>>
  /\ zoom = Number(1)
  /\ lastOp = CameraIdle

NextCamera ==
  \/ \E z \in Zooms : SetZoom(z)
  \/ \E x \in Coordinates, y \in Coordinates : SetPosition(x, y)
  \/ \E width \in 1..MaxCanvasSize, height \in 1..MaxCanvasSize :
       CanvasResized(width, height)
  \/ getViewProjectionMatrix
  \/ CameraReturn

SpecCamera == InitCamera /\ [][NextCamera]_vars

\* ----------------------------------------------------------------- C18
\* C18: getViewProjectionMatrix returns the product of the scaling by
\* (zoom * canvas.height / canvas.width, zoom, 1) and the translation by
\* (-position.x, -position.y, 0); for zoom 1 and position (0, 0) that is the
\* diagonal matrix (canvas.height / canvas.width, 1, 1, 1) with every
\* translation entry zero; and the call changes neither position nor zoom.
Same(a, b) == a[1] * b[2] = b[1] * a[2]

Times3(a, b, c) == <<a[1] * b[1] * c[1], a[2] * b[2] * c[2]>>

ExpectedMatrix(c, p, z) ==
  LET scaleX == Times3(z, Number(c.height), <<1, c.width>>)
  IN [i \in 1..16 |->
        CASE i = 1 -> scaleX
          [] i = 6 -> z
          [] i \in {11, 16} -> Number(1)
          [] i = 13 -> Times3(Number(0 - 1), p[1], scaleX)
          [] i = 14 -> Times3(Number(0 - 1), p[2], z)
          [] OTHER -> Number(0)]

C18_ViewProjectionMatrix ==
  lastOp.op = "getViewProjectionMatrix" =>
    /\ \A i \in 1..16 :
         Same(lastOp.result[i], ExpectedMatrix(canvas, position, zoom)[i])
    /\ (zoom = Number(1) /\ position = <<Number(0), Number(0)>>) =>
         /\ Same(lastOp.result[1], <<canvas.height, canvas.width>>)
         /\ \A i \in 2..16 :
              lastOp.result[i] =
                IF i \in {6, 11, 16} THEN Number(1) ELSE Number(0)
    /\ position = lastOp.position
    /\ zoom = lastOp.zoom

\* The matrix of a camera moved to (1, -1) with zoom 2 on a canvas 3 wide and
\* 2 high: x-scale 4/3, x-translation -4/3, y-translation 2
C18_Witness ==
  /\ lastOp.op = "getViewProjectionMatrix"
  /\ zoom = <<2, 1>>
  /\ position = <<Number(1), Number(0 - 1)>>
  /\ canvas = [width |-> 3, height |-> 2]
  /\ lastOp.result[1] = <<4, 3>>
  /\ lastOp.result[13] = <<0 - 4, 3>>
  /\ lastOp.result[14] = <<2, 1>>

\* ======================================================= Mesh of exercise 4
\* The Mesh of exercise 4 (src/exercises/exercise-4/src/mesh.ts): positions
\* only, three floats a vertex.  Its constructor keeps the array it is given
\* (private vertices: vec3[]), so vertices is the one array the caller and
\* the mesh share.  gl is the context of the Mesh above.

\* The positions a caller may use
Vec3Pool == {<<1, 2, 3>>, <<6, 7, 8>>}

Vec3Lists == UNION { [1..n -> Vec3Pool] : n \in 0..MaxVertices }

\* vertexData: x, y, z of each vertex
PositionData(vs) ==
  [p \in 1..(Len(vs) * 3) |-> vs[((p - 1) \div 3) + 1][((p - 1) % 3) + 1]]

drawArrays(G, first, count) == Logged(G, "drawArrays", count, TRUE)

Exercise4Op(op, G) == [op |-> op, count |-> 0, calls |-> G.log]

Exercise4Idle == Exercise4Op("idle", FreshContext)

\* new Mesh(gl, vs): the context it leaves
Exercise4Mesh_constructor(vs) ==
  LET G1 == createBuffer(StartHandler(FreshContext))
      G2 == bindBuffer(G1, buffer)
      G3 == bufferData(G2, PositionData(vs))
  IN bindBuffer(G3, NullBuffer)

\* The caller adds a vertex to the array it gave the constructor
CallerPush(v) ==
  /\ lastOp = Exercise4Idle
  /\ Len(vertices) <= MaxVertices
  /\ vertices' = Append(vertices, v)
  /\ UNCHANGED <<gl, lastOp, instanceAttributeDefinition, vertexCount,
                 instanceCount, instanceAttributes, instanceAttributeSize,
                 notMeshVars>>

\* The caller removes the last vertex of that array
CallerPop ==
  /\ lastOp = Exercise4Idle
  /\ Len(vertices) > 0
  /\ vertices' = SubSeq(vertices, 1, Len(vertices) - 1)
  /\ UNCHANGED <<gl, lastOp, instanceAttributeDefinition, vertexCount,
                 instanceCount, instanceAttributes, instanceAttributeSize,
                 notMeshVars>>

\* render(program, positionAttributeName)
Exercise4Mesh_render(program, positionAttributeName) ==
  LET G1 == useProgram(StartHandler(gl), program)
      positionAttributeLocation ==
        getAttribLocation(program, positionAttributeName)
      G2 == enableVertexAttribArray(G1, positionAttributeLocation)
      G3 == bindBuffer(G2, buffer)
      G4 == vertexAttribPointer(G3, positionAttributeLocation, 3,
                                3 * BYTES_PER_ELEMENT, 0)
      G5 == drawArrays(G4, 0, Len(vertices))
      G6 == disableVertexAttribArray(G5, positionAttributeLocation)
      G7 == useProgram(bindBuffer(G6, NullBuffer), NullProgram)
  IN /\ lastOp = Exercise4Idle
     /\ gl' = ContextState(G7)
     /\ lastOp' = [Exercise4Op("render", G7) EXCEPT !.count = Len(vertices)]
     /\ UNCHANGED <<meshVars, notMeshVars>>

Exercise4Return ==
  /\ lastOp # Exercise4Idle
  /\ lastOp' = Exercise4Idle
  /\ UNCHANGED <<gl, meshVars, notMeshVars>>

InitExercise4 ==
  /\ ProgramAbsent
  /\ RendererAbsent
  /\ RenderManagerAbsent
  /\ SchedulerAbsent
  /\ CameraAbsent
  /\ AppAbsent
  /\ instanceAttributeDefinition = Absent
  /\ vertexCount = Absent
  /\ instanceCount = Absent
  /\ instanceAttributes = Absent
  /\ instanceAttributeSize = Absent
  /\ vertices \in Vec3Lists
  /\ gl = ContextState(Exercise4Mesh_constructor(vertices))
  /\ lastOp = Exercise4Idle

NextExercise4 ==
  \/ \E v \in Vec3Pool : CallerPush(v)
  \/ CallerPop
  \/ \E program \in Programs : Exercise4Mesh_render(program, "aPosition")
  \/ Exercise4Return

SpecExercise4 == InitExercise4 /\ [][NextExercise4]_vars

\* ----------------------------------------------------------------- C19
\* C19 (as claimed): in every render the vertex count given to the draw call
\* is the number of vertices the constructor uploaded to the vertex buffer,
\* whatever the caller did since to the array it passed.
C19_DrawsUploadedCount ==
  lastOp.op = "render" => lastOp.count * 3 = Len(gl.data[buffer])

\* ----------------------------------------------------------------- C20
\* C20 (as claimed): every setup failure (no canvas element, no WebGL2
\* context, no buffer, texture, shader or program handle, a shader that does
\* not compile, a program that does not link) is thrown to the caller of the
\* setup, and once one has happened no frame is rendered.
SetupFailureMessages ==
  { SetupFailures[i] : i \in 1..Len(SetupFailures) }
    \cup {"Failed to create texture"}

FailedSetups ==
  { i \in 1..Len(errors) : errors[i].message \in SetupFailureMessages }

C20_SetupFailuresAreFatal ==
  /\ \A i \in FailedSetups : errors[i].to = "caller"
  /\ FailedSetups # {} => lastOp.op # "frame"

\* ----------------------------------------------------------------- C25
\* C25: a uniform setter given a null location throws 'Uniform location is
\* null' and makes no GL call: the current program and the value of every
\* uniform of every program are what they were before the call.
C25_NullLocationThrowsFirst ==
  [][(lastOp'.op \in Setters /\ lastOp'.location = NullLocation) =>
       /\ lastOp'.threw = Error("Uniform location is null", NoInfo)
       /\ lastOp'.calls = <<>>
       /\ gl' = gl]_vars

\* A setter of a linked Program thrown on a null location while a program is
\* current
C25_Witness ==
  /\ lastOp.op \in Setters
  /\ lastOp.location = NullLocation
  /\ lastOp.threw = Error("Uniform location is null", NoInfo)
  /\ gl.program # NullHandle
  /\ gl.program = lastOp.before

\* ----------------------------------------------------------------- C26
\* C26 (as claimed): setInstanceProperty issues no bufferSubData call whose
\* floats reach past the end of the instance buffer that the last
\* setInstanceCount allocated (an empty buffer before the first one), and
\* none at all for an index that is not below instanceCount.
C26_NoWritePastTheEnd ==
  lastOp.op = "setInstanceProperty" =>
    \A c \in 1..Len(lastOp.calls) :
      lastOp.calls[c].fn = "bufferSubData" =>
        /\ lastOp.index < instanceCount
        /\ (lastOp.calls[c].a \div BYTES_PER_ELEMENT) + Len(lastOp.data)
             <= Len(gl.data[instanceBuffer])

\* ----------------------------------------------------------------- C28
\* The instance buffer a setInstanceProperty call with a declared name leaves,
\* started in context G: the GL calls of the action setInstanceProperty.
WrittenBy(G, index, name, data) ==
  bufferSubData(bindBuffer(G, instanceBuffer),
                PropertyByteOffset(index, MapGet(instanceAttributes, name)),
                data).data[instanceBuffer]

AfterWrite(G, index, name, data) ==
  [G EXCEPT !.data[instanceBuffer] = WrittenBy(G, index, name, data)]

\* Data of the declared size of name: the floats k + 1, k + 2, ...
SizedData(name, k) == [i \in 1..DeclaredSize(name) |-> k + i]

\* The (index, name) pairs of the instances the buffer holds
Pairs == { pr \in (0..(instanceCount - 1)) \X InstanceNames : IsDeclared(pr[2]) }

\* The Mesh with the calls on its instance buffer only, the data of a
\* declared attribute being of its declared size
NextInstanceBuffer ==
  \/ \E count \in 0..MaxInstances :
       setInstanceCount(count) /\ UNCHANGED notMeshVars
  \/ \E index \in 0..MaxInstances, name \in InstanceNames \cup {UnknownName},
        data \in DataArrays :
          /\ IsDeclared(name) => Len(data) = DeclaredSize(name)
          /\ setInstanceProperty(index, name, data)
          /\ UNCHANGED notMeshVars
  \/ Return /\ UNCHANGED notMeshVars

SpecInstanceBuffer == Init /\ [][NextInstanceBuffer]_vars

\* C28: with indices below instanceCount and data of the declared sizes, two
\* setInstanceProperty calls on different (index, name) pairs leave the same
\* instance buffer in either order, and of two calls on the same pair the
\* last one decides: the second call alone gives the same buffer, so a
\* repeated call changes nothing.  Stated of every mesh and buffer a sequence
\* of calls can reach, when the next call can be made.
C28_WritesCommute ==
  lastOp = Idle =>
    \A p \in Pairs, q \in Pairs :
      LET d == SizedData(p[2], 0)
          e == SizedData(q[2], 10)
          pq == WrittenBy(AfterWrite(gl, p[1], p[2], d), q[1], q[2], e)
          qp == WrittenBy(AfterWrite(gl, q[1], q[2], e), p[1], p[2], d)
      IN IF p # q
           THEN pq = qp
           ELSE /\ pq = WrittenBy(gl, q[1], q[2], e)
                /\ WrittenBy(AfterWrite(gl, p[1], p[2], d), p[1], p[2], d)
                     = WrittenBy(gl, p[1], p[2], d)

\* The second of two writes to different pairs of a mesh with two attributes
\* and two instances: the floats of the first write are still there
C28_Witness ==
  /\ lastOp.op = "setInstanceProperty"
  /\ Len(Defs) = 2
  /\ instanceCount = 2
  /\ lastOp.index = 1
  /\ lastOp.name = "iColor"
  /\ Len(lastOp.data) = DeclaredSize("iColor")
  /\ InstanceData[SlotStart(0, "iOffset") + 1] # 0
  /\ InstanceData[SlotStart(1, "iColor") + 1] # 0

\* ----------------------------------------------------------------- C21
\* C21: Texture.unbindAll(gl, m) with m >= 0 leaves no texture bound on the
\* units 0..m, makes unit 0 the active one and leaves the units above m as
\* they were; so when TriangleObject.render has returned no texture is bound
\* on unit 0 or 1 and the active unit is 0, whichever textures have loaded.
\* The first part is stated of unbindAll applied, for every m, to the context
\* the frame had at its draw call.
UnbindsUpTo(G, m) ==
  LET after == Texture_unbindAll(G, m)
  IN /\ \A u \in TextureUnits :
          after.units[u] = IF u <= m THEN NullHandle ELSE G.units[u]
     /\ after.activeTexture = 0

C21_UnbindAllLeavesNothingBound ==
  lastOp.op = "frame" =>
    /\ \A m \in TextureUnits :
         UnbindsUpTo([gl EXCEPT !.units = lastOp.draw.units], m)
    /\ \A u \in TextureUnits : gl.units[u] = NullHandle
    /\ gl.activeTexture = 0

\* A frame that drew with both textures bound and has returned
C21_Witness ==
  /\ lastOp.op = "frame"
  /\ lastOp.draw.units[0] # NullHandle
  /\ lastOp.draw.units[1] # NullHandle
  /\ gl.units[0] = NullHandle
  /\ gl.units[1] = NullHandle

\* ----------------------------------------------------------------- C24
\* C24: at the draw call of TriangleObject.render the object's program is
\* current, uTexture holds 0 and uNoiseTexture holds 1, and a texture that
\* has loaded is bound to the unit of its sampler and to no other unit (the
\* colour texture to unit 0, the noise texture to unit 1); the useProgram
\* calls of the uniform setters between the binds change no texture binding,
\* so a unit whose texture has not loaded holds nothing.
C24_DrawSeesSamplersAndTextures ==
  lastOp.op = "frame" =>
    /\ lastOp.draw.done
    /\ lastOp.draw.program = TriangleProgram
    /\ lastOp.draw.samplers = [uTexture |-> 0, uNoiseTexture |-> 1]
    /\ \A f \in TextureFields :
         IF triangleObject[f] # NullHandle
           THEN \A u \in TextureUnits :
                  lastOp.draw.units[u] = triangleObject[f] <=> u = UnitOf(f)
           ELSE lastOp.draw.units[UnitOf(f)] = NullHandle

\* A draw call with both textures loaded, the noise texture first
C24_Witness ==
  /\ lastOp.op = "frame"
  /\ triangleObject["noiseTexture"] = 1
  /\ triangleObject["texture"] = 2
  /\ lastOp.draw.units[0] = 2
  /\ lastOp.draw.units[1] = 1
  /\ lastOp.draw.samplers["uNoiseTexture"] = 1

\* ============================================== RenderManager, callbacks throw
\* SpecRenderLoop is SpecRenderManager with callbacks that may throw, for an
\* application that calls startRendering only while nothing has been thrown.
\* errors holds what the callbacks threw out of render.

\* render when callback number k throws: the callbacks after it do not run
\* and requestAnimationFrame is not reached
RenderManager_renderThrows(G, c, ratio, callbacks, k) ==
  LET r == RenderManager_render(G, c, ratio, SubSeq(callbacks, 1, k))
  IN [gl |-> [r.gl EXCEPT !.log = SubSeq(@, 1, Len(@) - 1)],
      canvas |-> r.canvas]

\* The browser runs one of the requests of the animation frame, and callback
\* number k throws
RenderManagerRenderThrows(k) ==
  LET r == RenderManager_renderThrows(StartHandler(gl), canvas,
                                      devicePixelRatio, onRenderCallbacks, k)
  IN /\ lastOp = RenderManagerIdle
     /\ frame.pending > 0
     /\ k \in 1..Len(onRenderCallbacks)
     /\ frame' = [pending |-> frame.pending - 1,
                  rendered |-> frame.rendered + 1]
     /\ canvas' = r.canvas
     /\ gl' = ContextState(r.gl)
     /\ errors' = errors \cup {"callback threw"}
     /\ lastOp' = [RenderManagerOp("render threw", r.gl) EXCEPT
                     !.registered = onRenderCallbacks]
     /\ UNCHANGED <<devicePixelRatio, onRenderCallbacks,
                    animationFrameCallbacks, meshVars, programVars, cameraVars,
                    triangleObject, images, rendererVars>>

InitRenderLoop ==
  /\ MeshAbsent
  /\ ProgramAbsent
  /\ RendererAbsent
  /\ CameraAbsent
  /\ triangleObject = Absent
  /\ images = Absent
  /\ errors = {}
  /\ \E clientWidth \in 0..MaxClientSize, clientHeight \in 0..MaxClientSize :
       canvas = NewCanvas(clientWidth, clientHeight)
  /\ devicePixelRatio \in DevicePixelRatios
  /\ gl = FreshRenderContext
  /\ lastOp = RenderManagerIdle
  /\ onRenderCallbacks = <<>>
  /\ animationFrameCallbacks = 0
  /\ frame = NoFrame

NextRenderLoop ==
  \/ errors = {} /\ startRendering
  \/ \E callback \in Callbacks : addRenderCallback(callback)
  \/ \E clientWidth \in 0..MaxClientSize, clientHeight \in 0..MaxClientSize,
        ratio \in DevicePixelRatios : Resize(clientWidth, clientHeight, ratio)
  \/ AnimationFrame
  \/ RenderManagerRender
  \/ \E k \in Callbacks : RenderManagerRenderThrows(k)
  \/ RenderManagerReturn

SpecRenderLoop == InitRenderLoop /\ [][NextRenderLoop]_vars

\* ----------------------------------------------------------------- C22
\* C22 (as claimed, its two safety parts): a run of render requests the next
\* animation frame if and only if every callback returned normally, and once
\* a callback has thrown no run of render starts any more.  (The third part,
\* that frames go on for ever while no callback throws, is a liveness
\* property and is not what fails.)
C22_ThrowEndsTheLoop ==
  [][/\ lastOp'.op = "render" =>
          Positions(lastOp'.calls, "requestAnimationFrame") # {}
     /\ lastOp'.op = "render threw" =>
          /\ Positions(lastOp'.calls, "requestAnimationFrame") = {}
          /\ animationFrameCallbacks' = animationFrameCallbacks
     /\ errors # {} => lastOp'.op \notin {"render", "render threw"}]_vars

\* ================================================ meshes sharing one context
\* The Mesh classes without instancing: the Mesh of src/unnamed/part_000 and
\* of exercise 7 (position and uv, five floats a vertex) and the Mesh of
\* exercise 4 (position only, three floats a vertex).  A mesh is the buffer
\* its constructor created and the vertex count it draws; neither changes
\* after construction.  Every constructor ends with bindBuffer(ARRAY_BUFFER,
\* null), so the meshes leave the context as they found it.
PlainBuffers == {"bufferA", "bufferB"}

PlainMeshes == [buffer : PlainBuffers, vertexCount : {0, MaxVertices}]

\* The attribute names a caller may pass
AttributeNames == {"aPosition", "aUv"}

\* The draw call of a mesh without instancing, issued with the context in
\* state G
PlainDrawCall(G, mesh) ==
  [kind |-> "drawArrays", count |-> mesh.vertexCount, instances |-> 0,
   at |-> ContextState(G)]

\* A variant of render that leaves the uv array enabled
PlainMesh_renderKeepsUv(G, mesh, program, positionAttributeName, uvAttributeName) ==
  LET G1 == useProgram(G, program)
      positionAttributeLocation ==
        getAttribLocation(program, positionAttributeName)
      uvAttributeLocation == getAttribLocation(program, uvAttributeName)
      G2 == enableVertexAttribArray(G1, positionAttributeLocation)
      G3 == enableVertexAttribArray(G2, uvAttributeLocation)
      G4 == bindBuffer(G3, mesh.buffer)
      G5 == vertexAttribPointer(G4, positionAttributeLocation,
              elementsPerPosition, elementsPerVertex * BYTES_PER_ELEMENT, 0)
      G6 == vertexAttribPointer(G5, uvAttributeLocation,
              elementsPerUV, elementsPerVertex * BYTES_PER_ELEMENT,
              elementsPerPosition * BYTES_PER_ELEMENT)
      G7 == drawArrays(G6, 0, mesh.vertexCount)
      G8 == disableVertexAttribArray(G7, positionAttributeLocation)
      G9 == bindBuffer(G8, NullBuffer)
  IN [gl |-> useProgram(G9, NullProgram), draw |-> PlainDrawCall(G6, mesh)]

\* Mesh.render(program, positionAttributeName, uvAttributeName) of part_000
\* and exercise 7: the context it leaves and the draw call it issued
PlainMesh_render(G, mesh, program, positionAttributeName, uvAttributeName) ==
  LET G1 == useProgram(G, program)
      positionAttributeLocation ==
        getAttribLocation(program, positionAttributeName)
      uvAttributeLocation == getAttribLocation(program, uvAttributeName)
      G2 == enableVertexAttribArray(G1, positionAttributeLocation)
      G3 == enableVertexAttribArray(G2, uvAttributeLocation)
      G4 == bindBuffer(G3, mesh.buffer)
      G5 == vertexAttribPointer(G4, positionAttributeLocation,
              elementsPerPosition, elementsPerVertex * BYTES_PER_ELEMENT, 0)
      G6 == vertexAttribPointer(G5, uvAttributeLocation,
              elementsPerUV, elementsPerVertex * BYTES_PER_ELEMENT,
              elementsPerPosition * BYTES_PER_ELEMENT)
      G7 == drawArrays(G6, 0, mesh.vertexCount)
      G8 == disableVertexAttribArray(G7, positionAttributeLocation)
      G9 == disableVertexAttribArray(G8, uvAttributeLocation)
      G10 == bindBuffer(G9, NullBuffer)
  IN [gl |-> useProgram(G10, NullProgram), draw |-> PlainDrawCall(G6, mesh)]

\* Mesh.render(program, positionAttributeName) of exercise 4
PositionMesh_render(G, mesh, program, positionAttributeName) ==
  LET G1 == useProgram(G, program)
      positionAttributeLocation ==
        getAttribLocation(program, positionAttributeName)
      G2 == enableVertexAttribArray(G1, positionAttributeLocation)
      G3 == bindBuffer(G2, mesh.buffer)
      G4 == vertexAttribPointer(G3, positionAttributeLocation, 3,
                                3 * BYTES_PER_ELEMENT, 0)
      G5 == drawArrays(G4, 0, mesh.vertexCount)
      G6 == disableVertexAttribArray(G5, positionAttributeLocation)
      G7 == bindBuffer(G6, NullBuffer)
  IN [gl |-> useProgram(G7, NullProgram), draw |-> PlainDrawCall(G4, mesh)]

\* A render of a mesh with position and uv on the shared context; name
\* records the buffer of the mesh that was drawn
PlainMeshRender(mesh, program, positionAttributeName, uvAttributeName) ==
  LET r == PlainMesh_render(StartHandler(gl), mesh, program,
                            positionAttributeName, uvAttributeName)
  IN /\ lastOp = Idle
     /\ gl' = ContextState(r.gl)
     /\ lastOp' = [Op("plain render", r.gl) EXCEPT
                     !.name = mesh.buffer,
                     !.program = program,
                     !.positionVariableName = positionAttributeName,
                     !.uvAttributeName = uvAttributeName,
                     !.draw = r.draw]
     /\ UNCHANGED <<meshVars, notMeshVars>>

\* A render of a mesh with positions only on the shared context
PositionMeshRender(mesh, program, positionAttributeName) ==
  LET r == PositionMesh_render(StartHandler(gl), mesh, program,
                               positionAttributeName)
  IN /\ lastOp = Idle
     /\ gl' = ContextState(r.gl)
     /\ lastOp' = [Op("position render", r.gl) EXCEPT
                     !.name = mesh.buffer,
                     !.program = program,
                     !.positionVariableName = positionAttributeName,
                     !.draw = r.draw]
     /\ UNCHANGED <<meshVars, notMeshVars>>

\* The context is new and every mesh has been constructed
InitPlainMeshes ==
  /\ MeshAbsent
  /\ ProgramAbsent
  /\ RendererAbsent
  /\ RenderManagerAbsent
  /\ SchedulerAbsent
  /\ CameraAbsent
  /\ AppAbsent
  /\ gl = FreshContext
  /\ lastOp = Idle

NextPlainMeshes ==
  \/ \E mesh \in PlainMeshes, program \in Programs,
        positionAttributeName \in AttributeNames,
        uvAttributeName \in AttributeNames :
          PlainMeshRender(mesh, program, positionAttributeName,
                          uvAttributeName)
  \/ \E mesh \in PlainMeshes, program \in Programs,
        positionAttributeName \in AttributeNames :
          PositionMeshRender(mesh, program, positionAttributeName)
  \/ Return /\ UNCHANGED notMeshVars

SpecPlainMeshes == InitPlainMeshes /\ [][NextPlainMeshes]_vars

\* ----------------------------------------------------------------- C23
\* The locations of the attributes the last render was given
GivenLocations ==
  { getAttribLocation(lastOp.program, name) :
      name \in {lastOp.positionVariableName, lastOp.uvAttributeName} \ {""} }
    \cap Locations

\* C23: whatever renders of meshes without instancing came before on the
\* shared context, no vertex attribute array is enabled, no buffer is bound
\* to ARRAY_BUFFER and no program is current once a render has returned; and
\* at its draw call exactly the arrays of the attributes of the mesh being
\* drawn are enabled, their pointers read the buffer of that mesh, and the
\* program it was given is current.
C23_PlainRenderIsSelfContained ==
  /\ gl.enabled = {}
  /\ gl.arrayBuffer = NullBuffer
  /\ gl.program = NullProgram
  /\ lastOp.op \in {"plain render", "position render"}
       => /\ lastOp.draw.at.enabled = GivenLocations
          /\ \A l \in GivenLocations :
               lastOp.draw.at.pointer[l].buffer = lastOp.name
          /\ lastOp.draw.at.arrayBuffer = lastOp.name
          /\ lastOp.draw.at.program = lastOp.program

\* Mesh B is drawn with position and uv after mesh A left its pointers on
\* both locations
C23_Witness ==
  /\ lastOp.op = "plain render"
  /\ lastOp.name = "bufferB"
  /\ lastOp.draw.at.enabled = {0, 1}
  /\ lastOp.draw.at.pointer[0].buffer = "bufferB"
  /\ lastOp.draw.at.pointer[1].buffer = "bufferB"
  /\ lastOp.calls[5].fn = "vertexAttribPointer"
  /\ gl.pointer[1].buffer = "bufferB"
  /\ gl.enabled = {}

\* ----------------------------------------------------------------- C27
\* The instanced Mesh of thor and meshes without instancing on one context:
\* the instanced mesh is the one of Init, its render the action above.
NextSharedContext ==
  \/ \E program \in Programs, positionVariableName \in PositionNames,
        uvAttributeName \in UvNames :
          render(program, positionVariableName, uvAttributeName)
            /\ UNCHANGED notMeshVars
  \/ \E mesh \in PlainMeshes, program \in Programs,
        positionAttributeName \in PositionNames,
        uvAttributeName \in UvNames :
          PlainMeshRender(mesh, program, positionAttributeName,
                          uvAttributeName)
  \/ Return /\ UNCHANGED notMeshVars

SpecSharedContext == Init /\ [][NextSharedContext]_vars

\* The locations the mesh of the last render configured: position, uv and,
\* for the instanced mesh, its declared instance attributes
ConfiguredLocations ==
  IF lastOp.op = "render"
    THEN GivenLocations
           \cup ({ getAttribLocation(lastOp.program, Defs[j].name) :
                     j \in 1..Len(Defs) } \cap Locations)
    ELSE GivenLocations

\* C27 (as claimed): at every draw call, of an instanced mesh or of one
\* without instancing, the enabled vertex attribute arrays are exactly those
\* the mesh being drawn configured, and its position and uv attributes have
\* divisor 0.
C27_DrawSeesOnlyItsOwnArrays ==
  lastOp.op \in {"render", "plain render"}
    => /\ lastOp.draw.at.enabled = ConfiguredLocations
       /\ \A l \in GivenLocations : lastOp.draw.at.divisor[l] = 0

\* ================================================ App and Renderer of damien
\* The App of src/projects/damien/src/app.ts and its Renderer
\* (src/unnamed/part_010, with the helpers of src/unnamed/part_009).  The page
\* has one canvas; getContext('webgl2') gives the same context on every call.
\* A resize closure made by initAutoResize is named by the number of the
\* cleanup callback that removes it.  The buffer, the program and the vertex
\* array object stand for the ones the latest init created.
MaxInits == 2

InitFailures ==
  {"none", "gl not supported", "gl.createBuffer() failed",
   "could not create location", "Failed to create VAO"}

\* The steps of init a failure is thrown from, in the order init takes them
FailureStep(failure) ==
  CASE failure = "gl not supported" -> 1
    [] failure = "gl.createBuffer() failed" -> 2
    [] failure = "could not create location" -> 3
    [] failure = "Failed to create VAO" -> 4
    [] OTHER -> 5

\* The values of window.devicePixelRatio on the displays of the page: 1 and
\* 3/2
DisplayRatios == {<<1, 1>>, <<3, 2>>}

triangleBuffer == "triangleBuffer"
NoVertexArray == "null"
NoRendererProgram == "null"

FreshRendererContext ==
  [viewport |-> <<0, 0, 300, 150>>,
   clearColor |-> <<0, 0, 0, 0>>,
   program |-> NoRendererProgram,
   arrayBuffer |-> NullBuffer,
   vertexArray |-> NoVertexArray,
   uModelMatrix |-> 0,
   uViewMatrix |-> <<0, 0>>,
   uProjectionMatrix |-> <<0, 0>>,
   log |-> <<>>]

\* canvas.width / canvas.height as a number: x / 0 is Infinity (<<1, 0>>)
\* and 0 / 0 is NaN (<<0, 0>>)
Aspect(c) ==
  IF c.height = 0
    THEN <<IF c.width = 0 THEN 0 ELSE 1, 0>>
    ELSE Fraction(c.width, c.height)

\* mat4.create()
mat4_identity == [kind |-> "identity", aspect |-> <<1, 1>>]

\* mat4.perspective(out, Math.PI / 4, aspect, 0.1, 100): with the other
\* arguments fixed the matrix is determined by the aspect ratio
mat4_perspective(aspect) == [kind |-> "perspective", aspect |-> aspect]

\* The Renderer after construction.  model counts the rotateZ steps applied
\* to matrices.model, view the translations applied to matrices.view by
\* setInitialMatrices and by tick.
NewRenderer ==
  [gl |-> FALSE,
   cleanupCallbacks |-> <<>>,
   matrices |-> [model |-> 0, view |-> <<0, 0>>, projection |-> mat4_identity],
   matrixLocations |-> FALSE,
   triangleVertexArray |-> FALSE]

\* What the methods of the Renderer read and write
RendererState(G, c, R, L) ==
  [gl |-> G, canvas |-> c, renderer |-> R, resizeListeners |-> L]

\* window.devicePixelRatio || 1
OrOne(ratio) == IF ratio[1] = 0 THEN <<1, 1>> ELSE ratio

\* The closure resize of initAutoResize
resize(S, ratio) ==
  LET dpr == OrOne(ratio)
      c1 == [S.canvas EXCEPT
               !.width = ToUnsignedLong(Times(S.canvas.clientWidth, dpr), 300)]
      c2 == [c1 EXCEPT
               !.height = ToUnsignedLong(Times(c1.clientHeight, dpr), 150)]
      G1 == viewport(S.gl, 0, 0, c2.width, c2.height)
      projection == mat4_perspective(Aspect(c2))
      G2 == IF S.renderer.matrixLocations
              THEN [G1 EXCEPT !.uProjectionMatrix = projection.aspect]
              ELSE G1
  IN [S EXCEPT !.gl = G2, !.canvas = c2,
               !.renderer.matrices.projection = projection]

\* A variant of initAutoResize whose cleanup callback removes nothing: the
\* listener it registers has no name a cleanup callback knows
initAutoResizeNeverRemoved(S, ratio) ==
  LET S1 == resize(S, ratio)
  IN [S1 EXCEPT
        !.resizeListeners = @ \cup {0 - (Len(S.renderer.cleanupCallbacks) + 1)},
        !.renderer.cleanupCallbacks = Append(@, Len(@) + 1)]

\* this.cleanupCallbacks.push(this.initAutoResize())
initAutoResize(S, ratio) ==
  LET S1 == resize(S, ratio)
      listener == Len(S.renderer.cleanupCallbacks) + 1
  IN [S1 EXCEPT !.resizeListeners = @ \cup {listener},
                !.renderer.cleanupCallbacks = Append(@, listener)]

\* Renderer.render(): clearColor and clear, the model and view matrices as
\* uniforms of the program in use, and the draw call between bindVertexArray
\* of the triangle and of null
Renderer_render(S) ==
  LET G1 == [S.gl EXCEPT !.clearColor = <<0, 0, 0, 10>>]
      G2 == [G1 EXCEPT !.uModelMatrix = S.renderer.matrices.model,
                       !.uViewMatrix = S.renderer.matrices.view]
      G3 == IF S.renderer.triangleVertexArray
              THEN [G2 EXCEPT !.vertexArray = NoVertexArray]
              ELSE G2
  IN [S EXCEPT !.gl = G3]

\* Renderer.tick(time)
Renderer_tick(S) ==
  Renderer_render(
    [S EXCEPT !.renderer.matrices.model = @ + 1,
              !.renderer.matrices.view[2] = @ + 1])

\* Renderer.init(config): the state it leaves when failure is thrown from
\* its step (or none is)
Renderer_init(S, ratio, failure) ==
  LET step == FailureStep(failure)
      \* this.gl = gl; setInitialMatrices()
      S1 == [S EXCEPT
               !.renderer.gl = TRUE,
               !.renderer.matrices.view[1] = @ + 1,
               !.renderer.matrices.projection =
                  mat4_perspective(Aspect(S.canvas))]
      \* addTriangle(): the buffer, the program
      S2 == [S1 EXCEPT !.gl.arrayBuffer = triangleBuffer,
                       !.gl.program = "program",
                       !.gl.uModelMatrix = 0,
                       !.gl.uViewMatrix = <<0, 0>>,
                       !.gl.uProjectionMatrix = <<0, 0>>]
      \* createLocationsForMatrices, initAutoResize
      S3 == initAutoResize([S2 EXCEPT !.renderer.matrixLocations = TRUE],
                           ratio)
      \* setupTriangleVAO, render
      S4 == Renderer_render([S3 EXCEPT !.renderer.triangleVertexArray = TRUE])
  IN CASE step = 1 -> S
       [] step = 2 -> S1
       [] step = 3 -> S2
       [] step = 4 -> S3
       [] OTHER -> S4

RECURSIVE RunCleanupCallbacks(_, _, _)
RunCleanupCallbacks(L, callbacks, i) ==
  IF i > Len(callbacks)
    THEN L
    ELSE RunCleanupCallbacks(L \ {callbacks[i]}, callbacks, i + 1)

\* Renderer.destroy(): every cleanup callback removes its listener;
\* removeEventListener of a listener that is not registered does nothing
Renderer_destroy(S) ==
  [S EXCEPT !.resizeListeners =
              RunCleanupCallbacks(@, S.renderer.cleanupCallbacks, 1)]

\* The window dispatches a resize event: every registered listener runs
RECURSIVE DispatchResize(_, _, _)
DispatchResize(S, ratio, n) ==
  IF n = 0 THEN S ELSE DispatchResize(resize(S, ratio), ratio, n - 1)

\* What a resize listener of the renderer writes
Sizes(S) ==
  [width |-> S.canvas.width, height |-> S.canvas.height,
   viewport |-> S.gl.viewport,
   projection |-> S.renderer.matrices.projection,
   uProjectionMatrix |-> S.gl.uProjectionMatrix]

Now == RendererState(gl, canvas, renderer, resizeListeners)

\* destroyed: destroy was called and init was not called since
DamienOp(op, destroyed) ==
  [op |-> op, threw |-> "none", destroyed |-> destroyed, again |-> FALSE,
   listeners |-> 0, before |-> Sizes(Now), registered |-> resizeListeners]

Set(S) ==
  /\ gl' = ContextState(S.gl)
  /\ canvas' = S.canvas
  /\ renderer' = S.renderer
  /\ resizeListeners' = S.resizeListeners

notDamienVars ==
  <<meshVars, programVars, onRenderCallbacks, cameraVars, appVars>>

\* App.init(config): renderer.init, then startTick, whose first loop() runs
\* a tick and requests the next frame
App_init(failure) ==
  LET S1 == Renderer_init(Now, devicePixelRatio, failure)
      S2 == IF failure = "none" THEN Renderer_tick(S1) ELSE S1
  IN /\ lastOp.op = "idle"
     /\ renderer.matrices.view[1] < MaxInits
     /\ failure = "gl not supported" => ~renderer.gl
     /\ Set(S2)
     /\ animationFrameCallbacks' =
          IF failure = "none"
            THEN animationFrameCallbacks + 1
            ELSE animationFrameCallbacks
     /\ lastOp' = [DamienOp("init", FALSE) EXCEPT !.threw = failure]
     /\ UNCHANGED <<devicePixelRatio, frame, notDamienVars>>

\* The browser runs a requested loop callback: a tick, and the request of
\* the next frame
Loop ==
  /\ lastOp.op = "idle"
  /\ animationFrameCallbacks > 0
  /\ frame < MaxFrames
  /\ Set(Renderer_tick(Now))
  /\ frame' = frame + 1
  /\ lastOp' = DamienOp("loop", lastOp.destroyed)
  /\ UNCHANGED <<devicePixelRatio, animationFrameCallbacks, notDamienVars>>

\* App.destroy()
App_destroy ==
  /\ lastOp.op = "idle"
  /\ Set(Renderer_destroy(Now))
  /\ lastOp' = [DamienOp("destroy", TRUE) EXCEPT
                  !.again = lastOp.destroyed]
  /\ UNCHANGED <<devicePixelRatio, animationFrameCallbacks, frame,
                 notDamienVars>>

\* The window is resized: the layout gives the canvas its new client size and
\* the resize listeners run
WindowResize(clientWidth, clientHeight, ratio) ==
  LET c == [canvas EXCEPT !.clientWidth = clientWidth,
                          !.clientHeight = clientHeight]
      S == RendererState(gl, c, renderer, resizeListeners)
  IN /\ lastOp.op = "idle"
     /\ <<clientWidth, clientHeight, ratio>> #
          <<canvas.clientWidth, canvas.clientHeight, devicePixelRatio>>
     /\ devicePixelRatio' = ratio
     /\ Set(DispatchResize(S, ratio, Cardinality(resizeListeners)))
     /\ lastOp' = [DamienOp("resize", lastOp.destroyed) EXCEPT
                     !.listeners = Cardinality(resizeListeners)]
     /\ UNCHANGED <<animationFrameCallbacks, frame, notDamienVars>>

DamienReturn ==
  /\ lastOp.op # "idle"
  /\ lastOp' = DamienOp("idle", lastOp.destroyed)
  /\ UNCHANGED <<gl, canvas, renderer, resizeListeners, devicePixelRatio,
                 animationFrameCallbacks, frame, notDamienVars>>

InitDamien ==
  /\ MeshAbsent
  /\ ProgramAbsent
  /\ CameraAbsent
  /\ AppAbsent
  /\ onRenderCallbacks = Absent
  /\ \E clientWidth \in 0..MaxClientSize, clientHeight \in 0..MaxClientSize :
       canvas = NewCanvas(clientWidth, clientHeight)
  /\ devicePixelRatio \in DisplayRatios
  /\ gl = FreshRendererContext
  /\ renderer = NewRenderer
  /\ resizeListeners = {}
  /\ animationFrameCallbacks = 0
  /\ frame = 0
  /\ lastOp = DamienOp("idle", FALSE)

NextDamien ==
  \/ \E failure \in InitFailures : App_init(failure)
  \/ Loop
  \/ App_destroy
  \/ \E clientWidth \in 0..MaxClientSize, clientHeight \in 0..MaxClientSize,
        ratio \in DisplayRatios :
          WindowResize(clientWidth, clientHeight, ratio)
  \/ DamienReturn

SpecDamien == InitDamien /\ [][NextDamien]_vars

\* ----------------------------------------------------------------- C29
\* C29: once destroy has been called, and until init is called again, the
\* window has no resize listener of the renderer, however many listeners the
\* calls of init registered; a resize event then runs no listener and leaves
\* the canvas size, the viewport and the projection matrix as they were; and
\* a second destroy throws nothing and changes none of them.
C29_DestroyRemovesEveryListener ==
  /\ lastOp.destroyed => resizeListeners = {}
  /\ (lastOp.op = "resize" /\ lastOp.destroyed)
       => /\ lastOp.listeners = 0
          /\ Sizes(Now) = lastOp.before
  /\ (lastOp.op = "destroy" /\ lastOp.again)
       => /\ lastOp.threw = "none"
          /\ Sizes(Now) = lastOp.before
          /\ resizeListeners = lastOp.registered

\* After two calls of init that each registered a listener and a destroy, the
\* window is resized to a size a listener would have given the canvas a new
\* width for
C29_Witness ==
  /\ lastOp.op = "resize"
  /\ lastOp.destroyed
  /\ Len(renderer.cleanupCallbacks) = 2
  /\ canvas.width #
       ToUnsignedLong(Times(canvas.clientWidth, devicePixelRatio), 300)
  /\ canvas.width = lastOp.before.width

\* ----------------------------------------------------------------- C30
\* C30 (as claimed): once App.destroy has returned, the loop that startTick
\* started runs no more: no tick is executed and no animation frame is
\* requested by it.
C30_DestroyStopsTheLoop == lastOp.op = "loop" => ~lastOp.destroyed
====
